---- MODULE Spec2Model ----
(***************************************************************************)
(* chart-sentry: the diff orchestration pipeline.                          *)
(*                                                                         *)
(* Text is modelled as a sequence of lines and a line as a sequence of     *)
(* tokens (atomic string fragments).  The empty string is the empty        *)
(* sequence of lines.  strings.Split / strings.Join / strings.TrimSpace /  *)
(* strings.Contains are modelled on that representation.                   *)
(***************************************************************************)
EXTENDS Integers, Sequences, FiniteSets, TLC

VARIABLES
    nEnvs,      \* pipeline run: number of discovered environments
    slots,      \* pipeline run: per-environment result slot (or NoResult)
    failure,    \* pipeline run: per-environment failure description (or NoFailure)
    completed,  \* pipeline run: environment indexes in completion order
    reported,   \* pipeline run: the results handed to the caller
    runPhase,   \* pipeline run: "running" | "reported"
    evalIn,     \* single evaluation: the inputs of the last evaluation
    evalOut,    \* single evaluation: the DiffResult it emitted
    results,    \* domain functions: the input sequence of DiffResult
    call,       \* domain functions: the last call and what it returned
    golden,     \* formatters: the golden file (formatter, input it was made from, content)
    lastErr,    \* errors: the error value under construction
    ops,        \* workspaces: per call, its kind, environment, position and temp dir
    fs,         \* workspaces: per temp dir name, the call whose directory it is (0: none)
    files,      \* changed files: the paths given to ExtractChartNames
    listing,    \* changed files: a GetChangedFiles call (server, page, files so far)
    cli         \* command line tool: one invocation of run

vars == <<nEnvs, slots, failure, completed, reported, runPhase,
          evalIn, evalOut, results, call, golden, lastErr, ops, fs,
          files, listing, cli>>

runVars == <<nEnvs, slots, failure, completed, reported, runPhase>>
evalVars == <<evalIn, evalOut>>
errVars == <<lastErr>>
wsVars == <<ops, fs>>
reqVars == <<files, listing, cli>>
domVars == <<results, call, golden, errVars, wsVars>>

(***************************************************************************)
(* Bounds of the model.                                                    *)
(***************************************************************************)
MaxEnvs == 2
MaxLines == 2
MaxResults == 3
MaxDepth == 3
MaxCalls == 2

(***************************************************************************)
(* Text primitives.                                                        *)
(***************************************************************************)
EmptyText == <<>>

\* the separator of path and URL segments
Slash == "/"

SpaceToks == {" ", "  ", "   ", "     ", "        "}

IsSpaceTok(t) == t \in SpaceToks

\* a token holding a pattern as a substring
TokContains(t, p) == t = p \/ (t = "differences" /\ p = "difference")

\* strings.Contains(line, pattern)
Contains(line, p) == \E i \in 1..Len(line) : TokContains(line[i], p)

RECURSIVE TrimLeft(_)
TrimLeft(line) ==
    IF line = <<>> THEN <<>>
    ELSE IF IsSpaceTok(Head(line)) THEN TrimLeft(Tail(line))
    ELSE line

RECURSIVE TrimRight(_)
TrimRight(line) ==
    IF line = <<>> THEN <<>>
    ELSE IF IsSpaceTok(line[Len(line)]) THEN TrimRight(SubSeq(line, 1, Len(line) - 1))
    ELSE line

\* strings.TrimSpace on one line
TrimSpaceLine(line) == TrimRight(TrimLeft(line))

\* strings.Split(text, "\n"): the empty string splits into one empty line
Split(text) == IF text = EmptyText THEN << <<>> >> ELSE text

\* strings.Join(lines, "\n"): no line, or one empty line, is the empty string
Join(lines) == IF lines = << <<>> >> THEN EmptyText ELSE lines

RECURSIVE DropBlankHead(_)
DropBlankHead(lines) ==
    IF lines = <<>> THEN <<>>
    ELSE IF TrimSpaceLine(Head(lines)) = <<>> THEN DropBlankHead(Tail(lines))
    ELSE lines

RECURSIVE DropBlankTail(_)
DropBlankTail(lines) ==
    IF lines = <<>> THEN <<>>
    ELSE IF TrimSpaceLine(lines[Len(lines)]) = <<>>
         THEN DropBlankTail(SubSeq(lines, 1, Len(lines) - 1))
    ELSE lines

\* strings.TrimSpace on a whole text: leading and trailing white space,
\* line breaks included, is removed
TrimSpace(text) ==
    LET body == DropBlankTail(DropBlankHead(text))
        n == Len(body)
    IN  IF n = 0 THEN EmptyText
        ELSE IF n = 1 THEN << TrimSpaceLine(body[1]) >>
        ELSE << TrimLeft(body[1]) >> \o SubSeq(body, 2, n - 1) \o << TrimRight(body[n]) >>

(***************************************************************************)
(* Domain types (internal/diff/domain).                                    *)
(***************************************************************************)
StatusSuccess == 0
StatusChanges == 1
StatusError == 2

Statuses == {StatusSuccess, StatusChanges, StatusError}

\* The DiffResult struct; a field the literal leaves out holds its zero value.
DiffResult(chart, env, baseRef, headRef, status, unified, semantic, summary) ==
    [ChartName |-> chart, Environment |-> env, BaseRef |-> baseRef,
     HeadRef |-> headRef, Status |-> status, HasChanges |-> FALSE,
     UnifiedDiff |-> unified, SemanticDiff |-> semantic, Summary |-> summary]

\* "my-app/prod (main)"
FormatDiffLabel(chartName, envName, ref) == <<chartName, "/", envName, " (", ref, ")">>

PreferredDiffUnifiedFirst(r) ==
    IF r.UnifiedDiff # EmptyText THEN r.UnifiedDiff ELSE r.SemanticDiff

PreferredDiff(r) ==
    IF r.SemanticDiff # EmptyText THEN r.SemanticDiff ELSE r.UnifiedDiff

EmptyOrder == [c \in {} |-> 0]

RecordOrderDropped(order, name, idx) == order

\* order[r.ChartName] = idx
RecordOrder(order, name, idx) == order @@ (name :> idx)

AppendToGroupFront(group, r) == <<r>> \o group

\* groups[idx] = append(groups[idx], r)
AppendToGroup(group, r) == Append(group, r)

RECURSIVE GroupLoop(_, _, _)
GroupLoop(rs, order, groups) ==
    IF rs = <<>> THEN groups
    ELSE LET r == Head(rs)
             exists == r.ChartName \in DOMAIN order
             idx == IF exists THEN order[r.ChartName] ELSE Len(groups) + 1
             order2 == IF exists THEN order ELSE RecordOrder(order, r.ChartName, idx)
             groups2 == IF exists THEN groups ELSE Append(groups, <<>>)
         IN  GroupLoop(Tail(rs), order2, [groups2 EXCEPT ![idx] = AppendToGroup(@, r)])

GroupByChart(rs) == GroupLoop(rs, EmptyOrder, <<>>)

\* the named results (success, changes, errors) before the first iteration
NoCounts == [success |-> 0, changes |-> 0, errors |-> 0]

CountOneIgnoringErrors(counts, r) ==
    CASE r.Status = StatusSuccess -> [counts EXCEPT !.success = @ + 1]
      [] r.Status = StatusChanges -> [counts EXCEPT !.changes = @ + 1]
      [] OTHER -> counts

\* the switch on r.Status; a status outside the three cases counts nowhere
CountOne(counts, r) ==
    CASE r.Status = StatusSuccess -> [counts EXCEPT !.success = @ + 1]
      [] r.Status = StatusChanges -> [counts EXCEPT !.changes = @ + 1]
      [] r.Status = StatusError -> [counts EXCEPT !.errors = @ + 1]
      [] OTHER -> counts

RECURSIVE CountLoop(_, _)
CountLoop(rs, counts) ==
    IF rs = <<>> THEN counts
    ELSE CountLoop(Tail(rs), CountOne(counts, Head(rs)))

CountByStatus(rs) == CountLoop(rs, NoCounts)

(***************************************************************************)
(* The semantic differ (dyff adapter).                                     *)
(*                                                                         *)
(* A DyffEnv is what the operating system and the dyff binary do during    *)
(* one call: whether the binary is found, whether the temp directory and   *)
(* the two files can be created, the temp directory's name, and what dyff  *)
(* writes to stdout and stderr.                                            *)
(***************************************************************************)
DyffEnv(lookPath, mkdirTemp, tmpDir, writeBase, writeHead, stdout, stderr) ==
    [lookPath |-> lookPath, mkdirTemp |-> mkdirTemp, tmpDir |-> tmpDir,
     writeBase |-> writeBase, writeHead |-> writeHead,
     stdout |-> stdout, stderr |-> stderr]

IsBannerLineNoTail(line, trimmed) ==
    \/ Contains(line, "_        __  __")
    \/ Contains(trimmed, "_| |_   _ / _|/ _|")
    \/ Contains(trimmed, "/ _' | | | | |_| |_")
    \/ Contains(trimmed, "| (_| | |_| |  _|  _|")
    \/ Contains(trimmed, "\\__,_|\\__, |_| |_|")

\* the banner test of cleanDyffOutput
IsBannerLine(line, trimmed) ==
    \/ Contains(line, "_        __  __")
    \/ Contains(trimmed, "_| |_   _ / _|/ _|")
    \/ Contains(trimmed, "/ _' | | | | |_| |_")
    \/ Contains(trimmed, "| (_| | |_| |  _|  _|")
    \/ Contains(trimmed, "\\__,_|\\__, |_| |_|")
    \/ Contains(trimmed, "|___/")
    \/ /\ Contains(line, "returned")
       /\ (Contains(line, "difference") \/ Contains(line, "differences"))

RECURSIVE CleanLines(_, _, _)
CleanLines(lines, tmpDir, cleaned) ==
    IF lines = <<>> THEN cleaned
    ELSE LET line == Head(lines)
             trimmed == TrimSpaceLine(line)
         IN  IF Contains(line, tmpDir) THEN CleanLines(Tail(lines), tmpDir, cleaned)
             ELSE IF IsBannerLine(line, trimmed) THEN CleanLines(Tail(lines), tmpDir, cleaned)
             ELSE IF Len(cleaned) = 0 /\ trimmed = <<>>
                  THEN CleanLines(Tail(lines), tmpDir, cleaned)
             ELSE CleanLines(Tail(lines), tmpDir, Append(cleaned, line))

cleanDyffOutput(output, tmpDir) == Join(CleanLines(Split(output), tmpDir, <<>>))

CapturedOutputCombined(stdout, stderr) == stdout \o stderr

\* cmd.Stdout = &stdout; cmd.Stderr = &stderr; output := stdout.String()
CapturedOutput(stdout, stderr) == stdout

\* "--- <baseName>\n+++ <headName>\n\n" followed by the cleaned output
WithHeader(baseName, headName, output) ==
    Join(<< <<"--- ">> \o baseName, <<"+++ ">> \o headName, <<>> >> \o Split(output))

NoActualChangesRaw(output, cleaned) == TrimSpace(output) = EmptyText

\* nothing is left of dyff's output once it is cleaned
NoActualChanges(output, cleaned) == TrimSpace(cleaned) = EmptyText

ComputeDiff(baseName, headName, env) ==
    IF ~env.lookPath THEN EmptyText
    ELSE IF ~env.mkdirTemp THEN EmptyText
    ELSE IF ~env.writeBase THEN EmptyText
    ELSE IF ~env.writeHead THEN EmptyText
    ELSE LET output == CapturedOutput(env.stdout, env.stderr)
         IN  IF output = EmptyText /\ Len(env.stderr) > 0 THEN EmptyText
             ELSE LET cleaned == cleanDyffOutput(output, env.tmpDir)
                  IN  IF NoActualChanges(output, cleaned) THEN EmptyText
                      ELSE TrimSpace(WithHeader(baseName, headName, cleaned))

(***************************************************************************)
(* What the dyff binary prints.  It is an external tool: the model draws   *)
(* its output from the shapes dyff produces.  dyff reports differences     *)
(* only between files that differ.                                         *)
(***************************************************************************)
TmpDirs == {"/tmp/chart-sentry-dyff-1", "/tmp/chart-sentry-dyff-2"}

NoDir == ""

DyffBanner(tmpDir, count) ==
    << <<"     ", "_        __  __">>,
       <<"   ", "_| |_   _ / _|/ _|", "  between ", tmpDir, "/base.yaml">>,
       <<" ", "/ _' | | | | |_| |_", "      and ", tmpDir, "/head.yaml">>,
       <<"| (_| | |_| |  _|  _|">>,
       <<" ", "\\__,_|\\__, |_| |_|", "   ", "returned", " ", count, " ",
         IF count = "one" THEN "difference" ELSE "differences">>,
       <<"        ", "|___/">>,
       <<>> >>

DyffReport ==
    << <<"spec.replicas">>,
       <<"  ", "+/- value change">>,
       <<>> >>

DyffErrorText == << <<"failed to load input files">>, <<>> >>

\* the <<stdout, stderr>> pairs one run of dyff over the two files may give
DyffRuns(base, head, tmpDir) ==
    { <<EmptyText, DyffErrorText>>,
      <<EmptyText, EmptyText>>,
      <<DyffBanner(tmpDir, "no") \o << <<>> >>, EmptyText>> }
    \cup
    IF base # head
    THEN { <<DyffBanner(tmpDir, "one") \o DyffReport \o << <<>> >>, EmptyText>> }
    ELSE {}

DyffEnvs(base, head, dirs) ==
    { DyffEnv(FALSE, FALSE, NoDir, FALSE, FALSE, EmptyText, EmptyText),
      DyffEnv(TRUE, FALSE, NoDir, FALSE, FALSE, EmptyText, EmptyText) }
    \cup { DyffEnv(TRUE, TRUE, d, FALSE, FALSE, EmptyText, EmptyText) : d \in dirs }
    \cup { DyffEnv(TRUE, TRUE, d, TRUE, FALSE, EmptyText, EmptyText) : d \in dirs }
    \cup UNION { { DyffEnv(TRUE, TRUE, d, TRUE, TRUE, run[1], run[2]) :
                     run \in DyffRuns(base, head, d) } : d \in dirs }

\* the semantic tool ran and printed a report
DyffAvailable(env) ==
    env.lookPath /\ env.mkdirTemp /\ env.writeBase /\ env.writeHead
    /\ env.stdout # EmptyText

(***************************************************************************)
(* Rendered manifests: a blob of newline-terminated lines.                 *)
(***************************************************************************)
YamlLines == {"replicas: 3", "replicas: 5"}

ManifestText(ls) ==
    IF ls = <<>> THEN EmptyText
    ELSE [i \in 1..Len(ls) |-> <<ls[i]>>] \o << <<>> >>

Manifests == { ManifestText(ls) : ls \in UNION { [1..n -> YamlLines] : n \in 0..MaxLines } }

(***************************************************************************)
(* The line-based differ (line_diff adapter): a unified diff of the two    *)
(* blobs split at line breaks, empty when no line changed.  Manifests of   *)
(* this size lie inside one hunk: every line is within the context window  *)
(* of a change.                                                            *)
(***************************************************************************)
RECURSIVE LcsLen(_, _)
LcsLen(a, b) ==
    IF a = <<>> \/ b = <<>> THEN 0
    ELSE IF Head(a) = Head(b) THEN 1 + LcsLen(Tail(a), Tail(b))
    ELSE LET x == LcsLen(Tail(a), b)
             y == LcsLen(a, Tail(b))
         IN  IF x >= y THEN x ELSE y

RECURSIVE EditScript(_, _)
EditScript(a, b) ==
    IF a = <<>> THEN [i \in 1..Len(b) |-> <<"+">> \o b[i]]
    ELSE IF b = <<>> THEN [i \in 1..Len(a) |-> <<"-">> \o a[i]]
    ELSE IF Head(a) = Head(b)
         THEN << <<" ">> \o Head(a) >> \o EditScript(Tail(a), Tail(b))
    ELSE IF LcsLen(Tail(a), b) >= LcsLen(a, Tail(b))
         THEN << <<"-">> \o Head(a) >> \o EditScript(Tail(a), b)
    ELSE << <<"+">> \o Head(b) >> \o EditScript(a, Tail(b))

RangeToks == <<"1", "1,2", "1,3", "1,4", "1,5">>

HunkHeader(lenA, lenB) == <<"@@ -", RangeToks[lenA], " +", RangeToks[lenB], " @@">>

LineDiff(baseName, headName, base, head) ==
    LET a == Split(base)
        b == Split(head)
        script == EditScript(a, b)
    IN  IF \A i \in 1..Len(script) : script[i][1] = " " THEN EmptyText
        ELSE TrimSpace(<< <<"--- ">> \o baseName, <<"+++ ">> \o headName,
                          HunkHeader(Len(a), Len(b)) >> \o script)

(***************************************************************************)
(* Errors (internal/diff/domain/errors.go).  An error is the chain of its  *)
(* layers, outermost first; nil is the empty chain.  A layer wraps the     *)
(* rest of the chain (fmt.Errorf with %w).                                 *)
(***************************************************************************)
Nil == <<>>

\* errors.New(msg)
NewError(msg) == << [typ |-> "errorString", msg |-> <<msg>>] >>

\* fmt.Errorf(prefix + "%w", err)
Wrap(prefix, err) == << [typ |-> "wrapError", msg |-> <<prefix>>] >> \o err

Digits == <<"0", "1", "2", "3", "4", "5", "6", "7", "8", "9">>

\* %d of an HTTP status code or of a small count
Decimal(code) ==
    IF code \in 0..9 THEN Digits[code + 1]
    ELSE CASE code = 200 -> "200" [] code = 202 -> "202" [] code = 404 -> "404"
           [] code = 500 -> "500" [] OTHER -> "?"

\* fmt.Errorf("unexpected status downloading archive: %d", code)
UnexpectedStatus(code) ==
    << [typ |-> "errorString",
        msg |-> <<"unexpected status downloading archive: ", Decimal(code)>>] >>

NewNotFoundError(resource, ref) ==
    << [typ |-> "NotFoundError", msg |-> <<resource, " not found at ref ", ref>>] >>

RECURSIVE ErrorText(_)
\* err.Error(): the layers' texts, outermost first
ErrorText(err) ==
    IF err = Nil THEN <<>> ELSE Head(err).msg \o ErrorText(Tail(err))

\* "not found", "no such file or directory" or "404" occurs in the token
MentionsNotFound(tok) ==
    tok \in {"file not found in archive", "no such file or directory", "HTTP 404 Not Found",
             "404", "404 Not Found", " not found at ref "}

\* IsNotFound with a fallback on the error text
IsNotFoundByText(err) ==
    IF err = Nil THEN FALSE
    ELSE \/ \E i \in 1..Len(err) : err[i].typ = "NotFoundError"
         \/ \E i \in 1..Len(ErrorText(err)) : MentionsNotFound(ErrorText(err)[i])

\* errors.As(err, &notFoundErr): the chain is walked for a *NotFoundError
IsNotFound(err) ==
    IF err = Nil THEN FALSE
    ELSE \E i \in 1..Len(err) : err[i].typ = "NotFoundError"

(***************************************************************************)
(* Source retrieval (source_ctrl adapter).  A FetchEnv is what GitHub, the *)
(* network and the file system do during one FetchChartFiles call.         *)
(***************************************************************************)
StatusOK == 200

FetchEnv(archiveLink, newRequest, download, statusCode, mkdirTemp, extract, readDir, entries, stat) ==
    [archiveLink |-> archiveLink, newRequest |-> newRequest, download |-> download,
     statusCode |-> statusCode, mkdirTemp |-> mkdirTemp, extract |-> extract,
     readDir |-> readDir, entries |-> entries, stat |-> stat]

FetchedWithCleanup(chartDir, cleanup, err, tmpDir) ==
    [chartDir |-> chartDir, cleanup |-> tmpDir # "none", err |-> err, tmpDir |-> tmpDir]

\* what FetchChartFiles returns, and what became of its temp directory
Fetched(chartDir, cleanup, err, tmpDir) ==
    [chartDir |-> chartDir, cleanup |-> cleanup, err |-> err, tmpDir |-> tmpDir]

ChartMissingErrorPlain(chartPath, ref) == NewError("chart path missing in archive")

\* os.Stat(chartDir) failed: the chart is not in the archive of that revision
ChartMissingError(chartPath, ref) == NewNotFoundError(chartPath, ref)

CleanupSkipped == "exists"

\* cleanup(): os.RemoveAll(tmpDir) has run
CleanedUp == "removed"

FetchChartFiles(env, ref, chartPath) ==
    IF env.archiveLink # Nil
    THEN Fetched("", FALSE, Wrap("getting archive link: ", env.archiveLink), "none")
    ELSE IF env.newRequest # Nil
    THEN Fetched("", FALSE, Wrap("creating archive request: ", env.newRequest), "none")
    ELSE IF env.download # Nil
    THEN Fetched("", FALSE, Wrap("downloading archive: ", env.download), "none")
    ELSE IF env.statusCode # StatusOK
    THEN Fetched("", FALSE, UnexpectedStatus(env.statusCode), "none")
    ELSE IF env.mkdirTemp # Nil
    THEN Fetched("", FALSE, Wrap("creating temp dir: ", env.mkdirTemp), "none")
    ELSE IF env.extract # Nil
    THEN Fetched("", FALSE, Wrap("extracting archive: ", env.extract), CleanedUp)
    ELSE IF env.readDir # Nil
    THEN Fetched("", FALSE, Wrap("reading temp dir: ", env.readDir), CleanedUp)
    ELSE IF env.entries = 0
    THEN Fetched("", FALSE, NewError("empty archive"), CleanedUp)
    ELSE IF env.stat # Nil
    THEN Fetched("", FALSE, ChartMissingError(chartPath, ref), CleanedUp)
    ELSE Fetched(chartPath, TRUE, Nil, "exists")

\* errors of the collaborators underneath (GitHub API, network, file system)
ApiErrors == { NewError("404 Not Found"), NewError("connection refused") }

IoError == NewError("no space left on device")

\* os.Stat(chartDir): the path is not in the extracted archive
ErrNotExist == NewError("no such file or directory")

\* os.Stat(chartDir): the path could not be examined
ErrPermission == NewError("permission denied")

FetchOk == FetchEnv(Nil, Nil, Nil, StatusOK, Nil, Nil, Nil, 1, Nil)

ChartAbsent == FetchEnv(Nil, Nil, Nil, StatusOK, Nil, Nil, Nil, 1, ErrNotExist)

StatFailed == FetchEnv(Nil, Nil, Nil, StatusOK, Nil, Nil, Nil, 1, ErrPermission)

FetchEnvs ==
    { FetchOk, ChartAbsent, StatFailed }
    \cup { [FetchOk EXCEPT !.archiveLink = e] : e \in ApiErrors }
    \cup { [FetchOk EXCEPT !.newRequest = NewError("invalid URL")] }
    \cup { [FetchOk EXCEPT !.download = e] : e \in ApiErrors }
    \cup { [FetchOk EXCEPT !.statusCode = c] : c \in {404, 500} }
    \cup { [FetchOk EXCEPT !.mkdirTemp = IoError] }
    \cup { [FetchOk EXCEPT !.extract = NewError("illegal file path in archive")] }
    \cup { [FetchOk EXCEPT !.readDir = IoError] }
    \cup { [FetchOk EXCEPT !.entries = 0] }

(***************************************************************************)
(* The environment runner: one (chart, environment) evaluation.            *)
(***************************************************************************)
\* what obtaining one side's manifest gave: a rendered manifest, the chart
\* absent at that revision, or a render failure with its description
Obtained(kind, manifest, msg) == [kind |-> kind, manifest |-> manifest, msg |-> msg]

RenderFailures == { <<"template error">>, <<"renderer crashed">> }

Outcomes(manifests) ==
    { Obtained("ok", m, EmptyText) : m \in manifests }
    \cup { Obtained("notfound", EmptyText, EmptyText) }
    \cup { Obtained("error", EmptyText, msg) : msg \in RenderFailures }

NoChangesSummary == <<"No changes detected.">>

ChangesSummary(chart, env) ==
    <<"Changes detected in ", chart, " for environment ", env, ".">>

ClassifyBothNonEmpty(chart, env, baseRef, headRef, semantic, unified) ==
    IF semantic # EmptyText /\ unified # EmptyText
    THEN DiffResult(chart, env, baseRef, headRef, StatusChanges, unified, semantic,
                    ChangesSummary(chart, env))
    ELSE DiffResult(chart, env, baseRef, headRef, StatusSuccess, unified, semantic,
                    NoChangesSummary)

ClassifySemanticOnly(chart, env, baseRef, headRef, semantic, unified) ==
    IF semantic # EmptyText
    THEN DiffResult(chart, env, baseRef, headRef, StatusChanges, unified, semantic,
                    ChangesSummary(chart, env))
    ELSE DiffResult(chart, env, baseRef, headRef, StatusSuccess, unified, semantic,
                    NoChangesSummary)

ClassifyInverted(chart, env, baseRef, headRef, semantic, unified) ==
    IF semantic = EmptyText /\ unified = EmptyText
    THEN DiffResult(chart, env, baseRef, headRef, StatusChanges, unified, semantic,
                    ChangesSummary(chart, env))
    ELSE DiffResult(chart, env, baseRef, headRef, StatusSuccess, unified, semantic,
                    NoChangesSummary)

\* status and summary from the two diff outputs, and the DiffResult literal
Classify(chart, env, baseRef, headRef, semantic, unified) ==
    IF semantic # EmptyText \/ unified # EmptyText
    THEN DiffResult(chart, env, baseRef, headRef, StatusChanges, unified, semantic,
                    ChangesSummary(chart, env))
    ELSE DiffResult(chart, env, baseRef, headRef, StatusSuccess, unified, semantic,
                    NoChangesSummary)

ErrorResult(chart, env, baseRef, headRef, msg) ==
    DiffResult(chart, env, baseRef, headRef, StatusError, EmptyText, EmptyText, msg)

\* the manifest compared for one side: empty when the chart is absent there
ManifestOf(obtained) ==
    IF obtained.kind = "notfound" THEN EmptyText ELSE obtained.manifest

EvaluateEnv(chart, env, baseRef, headRef, baseOut, headOut, dyffEnv) ==
    IF baseOut.kind = "error" THEN ErrorResult(chart, env, baseRef, headRef, baseOut.msg)
    ELSE IF headOut.kind = "error" THEN ErrorResult(chart, env, baseRef, headRef, headOut.msg)
    ELSE LET baseName == FormatDiffLabel(chart, env, baseRef)
             headName == FormatDiffLabel(chart, env, headRef)
             semantic == ComputeDiff(baseName, headName, dyffEnv)
             unified == LineDiff(baseName, headName, ManifestOf(baseOut), ManifestOf(headOut))
         IN  Classify(chart, env, baseRef, headRef, semantic, unified)

Chart == "my-app"
BaseRef == "main"
HeadRef == "feat/update-config"
EnvNames == <<"prod", "staging", "dev", "qa">>

(***************************************************************************)
(* Single evaluation: the inputs are drawn, the environment is evaluated,  *)
(* the result is emitted.                                                  *)
(***************************************************************************)
ChartPath == "charts/my-app"

\* what the renderer gives for a chart directory that exists
Rendered(manifests) ==
    { Obtained("ok", m, EmptyText) : m \in manifests }
    \cup { Obtained("error", EmptyText, msg) : msg \in RenderFailures }

NotRendered == Obtained("none", EmptyText, EmptyText)

\* the base side of one evaluation: the chart fetched at the base revision,
\* then rendered; absent (NotFound) is not a failure, any other fetch error
\* fails the chart's whole evaluation
ObtainBase(fetched, rendered) ==
    IF fetched.err = Nil THEN rendered
    ELSE IF IsNotFound(fetched.err) THEN Obtained("notfound", EmptyText, EmptyText)
    ELSE Obtained("transport", EmptyText, ErrorText(fetched.err))

NoResult == DiffResult("", "", "", "", StatusSuccess, EmptyText, EmptyText, EmptyText)

Emitted(r) == [emitted |-> TRUE, result |-> r]

NotEmitted == [emitted |-> FALSE, result |-> NoResult]

\* one environment of the chart: no result when the chart's files could not
\* be obtained at all, else the environment's DiffResult
RunEnv(chart, env, baseRef, headRef, baseOut, headOut, dyffEnv) ==
    IF baseOut.kind = "transport" THEN NotEmitted
    ELSE Emitted(EvaluateEnv(chart, env, baseRef, headRef, baseOut, headOut, dyffEnv))

NoEval == [env |-> "", baseFetch |-> FetchOk, base |-> NotRendered, head |-> NotRendered,
           dyff |-> DyffEnv(FALSE, FALSE, NoDir, FALSE, FALSE, EmptyText, EmptyText)]

Evaluated == evalIn # NoEval

EvalInit ==
    /\ evalIn = NoEval
    /\ evalOut = NotEmitted

Evaluate ==
    /\ ~Evaluated
    /\ \E baseFetch \in FetchEnvs, headOut \in Outcomes(Manifests) :
         LET fetched == FetchChartFiles(baseFetch, BaseRef, ChartPath)
         IN  \E rendered \in (IF fetched.err = Nil THEN Rendered(Manifests)
                                                   ELSE {NotRendered}) :
               LET baseOut == ObtainBase(fetched, rendered)
               IN  \E dyffEnv \in DyffEnvs(ManifestOf(baseOut), ManifestOf(headOut), TmpDirs) :
                     /\ evalIn' = [env |-> EnvNames[1], baseFetch |-> baseFetch,
                                   base |-> baseOut, head |-> headOut, dyff |-> dyffEnv]
                     /\ evalOut' = RunEnv(Chart, EnvNames[1], BaseRef, HeadRef,
                                          baseOut, headOut, dyffEnv)
    /\ UNCHANGED <<runVars, domVars, reqVars>>

EvalReset ==
    /\ Evaluated
    /\ evalIn' = NoEval
    /\ evalOut' = NotEmitted
    /\ UNCHANGED <<runVars, domVars, reqVars>>

(***************************************************************************)
(* One chart's run: the environments are evaluated as independent tasks,   *)
(* in any completion order; each task writes the slot of its own           *)
(* discovery index, and the run hands the slots to the caller once every   *)
(* task has completed.                                                     *)
(***************************************************************************)
RunManifests ==
    { ManifestText(<<>>), ManifestText(<<"replicas: 3">>), ManifestText(<<"replicas: 5">>) }

RunDirs == {"/tmp/chart-sentry-dyff-1"}

NoFailure == EmptyText

\* the failure that makes an environment's result an Error, if any
FailureOf(baseOut, headOut) ==
    IF baseOut.kind = "error" THEN baseOut.msg
    ELSE IF headOut.kind = "error" THEN headOut.msg
    ELSE NoFailure

InSeq(x, seq) == \E k \in 1..Len(seq) : seq[k] = x

ReassembleByCompletion(resultSlots, order) ==
    [k \in 1..Len(order) |-> resultSlots[order[k]]]

ReassembleDropErrors(resultSlots, order) ==
    SelectSeq(resultSlots, LAMBDA r : r.Status # StatusError)

\* the results in discovery order: one slot per environment, by original index
Reassemble(resultSlots, order) == resultSlots

RunIdle ==
    /\ nEnvs = 0
    /\ slots = <<>>
    /\ failure = <<>>
    /\ completed = <<>>
    /\ reported = <<>>
    /\ runPhase = "idle"

RunInit ==
    /\ nEnvs \in 1..MaxEnvs
    /\ slots = [i \in 1..nEnvs |-> NoResult]
    /\ failure = [i \in 1..nEnvs |-> NoFailure]
    /\ completed = <<>>
    /\ reported = <<>>
    /\ runPhase = "running"

EvaluateTask(i) ==
    /\ runPhase = "running"
    /\ ~InSeq(i, completed)
    /\ \E baseOut \in Outcomes(RunManifests), headOut \in Outcomes(RunManifests) :
         \E dyffEnv \in DyffEnvs(ManifestOf(baseOut), ManifestOf(headOut), RunDirs) :
            /\ slots' = [slots EXCEPT ![i] =
                            EvaluateEnv(Chart, EnvNames[i], BaseRef, HeadRef,
                                        baseOut, headOut, dyffEnv)]
            /\ failure' = [failure EXCEPT ![i] = FailureOf(baseOut, headOut)]
    /\ completed' = Append(completed, i)
    /\ UNCHANGED <<nEnvs, reported, runPhase, evalVars, domVars, reqVars>>

Collect ==
    /\ runPhase = "running"
    /\ Len(completed) = nEnvs
    /\ reported' = Reassemble(slots, completed)
    /\ runPhase' = "reported"
    /\ UNCHANGED <<nEnvs, slots, failure, completed, evalVars, domVars, reqVars>>

(***************************************************************************)
(* Temporary workspaces.  A semantic-diff call (dyff adapter) and a        *)
(* FetchChartFiles call each create a temp directory with os.MkdirTemp,    *)
(* which returns a name that does not exist yet.  Calls run concurrently;  *)
(* a call is the steps: called, MkdirTemp, return (and, for a fetch that   *)
(* succeeded, the caller's cleanup()).                                     *)
(***************************************************************************)
FetchDirs == {"/tmp/chart-val-1", "/tmp/chart-val-2"}

TmpNames == TmpDirs \cup FetchDirs

\* a call: its kind, its position, the temp dir MkdirTemp gives it (if it
\* gets there), what has become of that directory when the call returns,
\* whether the call returns an error and a cleanup function, and whether it
\* gets as far as running the dyff subprocess (cmd.Run)
Op(kind, pc, dir, left, failed, cleanup, run) ==
    [kind |-> kind, pc |-> pc, dir |-> dir, left |-> left, failed |-> failed,
     cleanup |-> cleanup, run |-> run]

NoOp == Op("none", "idle", NoDir, "none", FALSE, FALSE, FALSE)

\* defer os.RemoveAll(tmpDir), registered once MkdirTemp has succeeded
Deferred(created) == IF created THEN "removed" ELSE "none"

\* no call is in progress and no temp directory exists
WsIdle ==
    /\ ops = [i \in 1..MaxCalls |-> NoOp]
    /\ fs = [d \in TmpNames |-> 0]

\* the paths of ComputeDiff: does the call get as far as a successful MkdirTemp
DyffPaths == DyffEnvs(EmptyText, EmptyText, TmpDirs)

\* ComputeDiff is called
StartDyff(i) ==
    /\ ops[i] = NoOp
    /\ \E env \in DyffPaths :
         ops' = [ops EXCEPT ![i] = Op("dyff", "called", env.tmpDir,
                                     Deferred(env.lookPath /\ env.mkdirTemp), FALSE, FALSE,
                                     env.lookPath /\ env.mkdirTemp
                                         /\ env.writeBase /\ env.writeHead)]
    /\ UNCHANGED <<fs, runVars, evalVars, results, call, golden, errVars, reqVars>>

\* FetchChartFiles is called
StartFetch(i) ==
    /\ ops[i] = NoOp
    /\ \E env \in FetchEnvs, d \in FetchDirs :
         LET fetched == FetchChartFiles(env, BaseRef, ChartPath)
         IN  ops' = [ops EXCEPT ![i] =
                       Op("fetch", "called", IF fetched.tmpDir = "none" THEN NoDir ELSE d,
                          fetched.tmpDir, fetched.err # Nil, fetched.cleanup, FALSE)]
    /\ UNCHANGED <<fs, runVars, evalVars, results, call, golden, errVars, reqVars>>

\* os.MkdirTemp succeeds: a directory that did not exist is created
MkdirTemp(i) ==
    /\ ops[i].pc = "called"
    /\ ops[i].left # "none"
    /\ fs[ops[i].dir] = 0
    /\ fs' = [fs EXCEPT ![ops[i].dir] = i]
    /\ ops' = [ops EXCEPT ![i].pc = "working"]
    /\ UNCHANGED <<runVars, evalVars, results, call, golden, errVars, reqVars>>

\* the call returns, its temp directory removed or left
Return(i) ==
    /\ \/ ops[i].pc = "called" /\ ops[i].left = "none" /\ UNCHANGED fs
       \/ /\ ops[i].pc = "working"
          /\ fs' = IF ops[i].left = "removed" THEN [fs EXCEPT ![ops[i].dir] = 0] ELSE fs
    /\ ops' = [ops EXCEPT ![i].pc = "returned"]
    /\ UNCHANGED <<runVars, evalVars, results, call, golden, errVars, reqVars>>

\* the caller of FetchChartFiles invokes cleanup()
Cleanup(i) ==
    /\ ops[i].pc = "returned"
    /\ ops[i].cleanup
    /\ fs' = [fs EXCEPT ![ops[i].dir] = 0]
    /\ ops' = [ops EXCEPT ![i].pc = "cleaned"]
    /\ UNCHANGED <<runVars, evalVars, results, call, golden, errVars, reqVars>>

(***************************************************************************)
(* Cancellation.  The calls of one chart evaluation run under the          *)
(* caller's context.  FetchChartFiles passes the context to the archive    *)
(* link request and to the download, whose body it reads while extracting; *)
(* ComputeDiff takes no context and starts dyff with exec.Command.  The    *)
(* runner reports the evaluation once every call has finished, and         *)
(* discards it when the context is cancelled.                              *)
(***************************************************************************)
Canceled == NewError("context canceled")

\* the call waits on something outside the program: the network (a fetch
\* until it returns) or the dyff subprocess (cmd.Run)
Blocked(i) ==
    /\ ops[i].pc \in {"called", "working"}
    /\ \/ ops[i].kind = "fetch"
       \/ ops[i].kind = "dyff" /\ ops[i].pc = "working" /\ ops[i].run

\* the call has returned and the caller has nothing left to release
Finished(i) ==
    \/ ops[i].pc = "cleaned"
    \/ ops[i].pc = "returned" /\ ~ops[i].cleanup

\* the runner starts a call of the evaluation
Launch(i) ==
    /\ runPhase = "running"
    /\ (StartDyff(i) \/ StartFetch(i))

\* the caller's context is cancelled
Cancel ==
    /\ runPhase = "running"
    /\ runPhase' = "cancelled"
    /\ UNCHANGED <<nEnvs, slots, failure, completed, reported, evalVars, domVars, reqVars>>

\* a fetch in flight under a cancelled context: the request in progress
\* (before MkdirTemp) or the read of the body (during extraction) fails
Abort(i) ==
    /\ runPhase = "cancelled"
    /\ ops[i].kind = "fetch"
    /\ ops[i].pc \in {"called", "working"}
    /\ LET env == IF ops[i].pc = "called" THEN [FetchOk EXCEPT !.download = Canceled]
                                         ELSE [FetchOk EXCEPT !.extract = Canceled]
           fetched == FetchChartFiles(env, BaseRef, ChartPath)
       IN  /\ ops' = [ops EXCEPT ![i] = Op("fetch", "returned", ops[i].dir, fetched.tmpDir,
                                           fetched.err # Nil, fetched.cleanup, FALSE)]
           /\ fs' = IF fetched.tmpDir = "removed" THEN [fs EXCEPT ![ops[i].dir] = 0] ELSE fs
    /\ UNCHANGED <<runVars, evalVars, results, call, golden, errVars, reqVars>>

\* the result of the evaluation the calls belong to
EvaluationResult ==
    IF \E i \in 1..MaxCalls : ops[i].failed
    THEN ErrorResult(Chart, EnvNames[1], BaseRef, HeadRef, <<"fetching chart files failed">>)
    ELSE DiffResult(Chart, EnvNames[1], BaseRef, HeadRef, StatusSuccess,
                    EmptyText, EmptyText, NoChangesSummary)

\* every call has finished and the context is live: the result is reported
ReportEvaluation ==
    /\ runPhase = "running"
    /\ \A i \in 1..MaxCalls : Finished(i)
    /\ reported' = <<EvaluationResult>>
    /\ runPhase' = "reported"
    /\ UNCHANGED <<nEnvs, slots, failure, completed, evalVars, domVars, reqVars>>

\* a step of a call that waits on nothing outside the program
Proceed(i) ==
    /\ ~Blocked(i)
    /\ (MkdirTemp(i) \/ Return(i))

(***************************************************************************)
(* The files changed in a pull request (pr_files adapter).  The server     *)
(* holds the files in pages; a response carries one page and the number    *)
(* of the next page, 0 after the last one.  A request for page 0, the      *)
(* zero value of opts.Page, is answered with the first page.               *)
(***************************************************************************)
MaxPages == 3
MaxPerPage == 2

\* file.GetFilename() of the j-th file of page k
Filename(k, j) == <<"charts", "/", "my-app", "/", "file-", Decimal(k), "-", Decimal(j)>>

\* what PullRequests.ListFiles returns for one page
Response(pageFiles, nextPage, err) == [files |-> pageFiles, next |-> nextPage, err |-> err]

\* a server: per page the number of files; a page whose request fails (0:
\* none); and whether the last page names itself as the next page, so
\* that no response ever has NextPage = 0
Server(counts, errAt, loops) ==
    [k \in 1..Len(counts) |->
        Response([j \in 1..counts[k] |-> Filename(k, j)],
                 IF k < Len(counts) THEN k + 1 ELSE IF loops THEN k ELSE 0,
                 IF k = errAt THEN NewError("502 Bad Gateway") ELSE Nil)]

Servers ==
    UNION { { Server(counts, errAt, loops) :
                counts \in [1..n -> 0..MaxPerPage], errAt \in 0..n, loops \in BOOLEAN } :
            n \in 1..MaxPages }

\* the most files a server with a last page has; a listing that never
\* meets a last page is followed until it holds more than that
MaxListed == MaxPages * MaxPerPage

\* client.PullRequests.ListFiles(ctx, owner, repo, prNumber, opts)
ListFilesOf(server, page) == server[IF page = 0 THEN 1 ELSE page]

FailedListPartial(changedFiles) == changedFiles

\* return nil, fmt.Errorf(...): the list returned with an error
FailedList(changedFiles) == <<>>

Listing(pc, server, page, changedFiles, ret, err) ==
    [pc |-> pc, server |-> server, page |-> page, changedFiles |-> changedFiles,
     ret |-> ret, err |-> err]

NoListing == Listing("idle", <<>>, 0, <<>>, <<>>, Nil)

\* GetChangedFiles is called: no files yet, opts.Page at its zero value
StartListing ==
    /\ listing = NoListing
    /\ \E server \in Servers :
         listing' = Listing("listing", server, 0, <<>>, <<>>, Nil)
    /\ UNCHANGED <<files, cli, runVars, evalVars, domVars>>

\* one turn of the loop: a page is requested; on an error the call returns,
\* else the page's filenames are appended and the call returns after the
\* last page or goes on with the next page
ListFiles ==
    /\ listing.pc = "listing"
    /\ Len(listing.changedFiles) <= MaxListed
    /\ LET resp == ListFilesOf(listing.server, listing.page)
           changedFiles == listing.changedFiles \o resp.files
       IN  listing' =
             IF resp.err # Nil
             THEN [listing EXCEPT !.pc = "done",
                                  !.ret = FailedList(listing.changedFiles),
                                  !.err = Wrap("listing PR files: ", resp.err)]
             ELSE IF resp.next = 0
             THEN [listing EXCEPT !.pc = "done", !.changedFiles = changedFiles,
                                  !.ret = changedFiles]
             ELSE [listing EXCEPT !.changedFiles = changedFiles, !.page = resp.next]
    /\ UNCHANGED <<files, cli, runVars, evalVars, domVars>>

(***************************************************************************)
(* The command line tool (cmd/chart-val-cli): run parses the               *)
(* configuration, parses the PR URL, fetches the PR and sends the webhook. *)
(* A URL is a sequence of tokens, "/" between its segments.                *)
(***************************************************************************)
StatusAccepted == 202

\* the command line and the environment variables of one invocation
CommandLine(tokenFlag, tokenEnv, secretFlag, secretEnv, installFlag, installEnv, url, args) ==
    [tokenFlag |-> tokenFlag, tokenEnv |-> tokenEnv, secretFlag |-> secretFlag,
     secretEnv |-> secretEnv, installFlag |-> installFlag, installEnv |-> installEnv,
     url |-> url, args |-> args]

getEnvOrFlag(flagValue, envValue) == IF flagValue # "" THEN flagValue ELSE envValue

\* strconv.ParseInt / strconv.Atoi of the digit strings of the model
Parsed(value, err) == [value |-> value, err |-> err]

ParseInt(str) ==
    CASE str = "0" -> Parsed(0, Nil)
      [] str = "7" -> Parsed(7, Nil)
      [] str = "123" -> Parsed(123, Nil)
      [] str = "99999999999999999999" -> Parsed(0, NewError("value out of range"))
      [] OTHER -> Parsed(0, NewError("invalid syntax"))

CliConfig(token, webhookURL, secret, installID) ==
    [token |-> token, webhookURL |-> webhookURL, secret |-> secret, installID |-> installID]

\* cfg.installID: the flag, or the environment variable when the flag is 0
InstallID(line) ==
    IF line.installFlag # 0 THEN Parsed(line.installFlag, Nil)
    ELSE IF line.installEnv # "" THEN ParseInt(line.installEnv)
    ELSE Parsed(0, Nil)

parseCliConfig(line) ==
    LET token == getEnvOrFlag(line.tokenFlag, line.tokenEnv)
        secret == getEnvOrFlag(line.secretFlag, line.secretEnv)
        id == InstallID(line)
        cfg == CliConfig(token, line.url, secret, 0)
    IN  IF token = "" THEN [cfg |-> cfg, err |-> NewError("github token required")]
        ELSE IF secret = "" THEN [cfg |-> cfg, err |-> NewError("webhook secret required")]
        ELSE IF id.err # Nil
        THEN [cfg |-> cfg, err |-> Wrap("invalid GITHUB_INSTALLATION_ID: ", id.err)]
        ELSE IF id.value = 0
        THEN [cfg |-> cfg, err |-> NewError("github App installation ID required")]
        ELSE IF Len(line.args) = 0
        THEN [cfg |-> [cfg EXCEPT !.installID = id.value],
              err |-> NewError("missing PR URL argument")]
        ELSE [cfg |-> [cfg EXCEPT !.installID = id.value], err |-> Nil]

\* strings of digits: what (\d+) matches
DigitStrings == {"0", "7", "123", "99999999999999999999"}

\* the regular expression of parsePRURL matches at token p:
\* github\.com/([^/]+)/([^/]+)/pull/(\d+)(?:/.*)?$
MatchesAt(url, p) ==
    /\ p + 8 <= Len(url)
    /\ url[p] = "github.com" /\ url[p + 1] = Slash
    /\ url[p + 2] # Slash /\ url[p + 3] = Slash
    /\ url[p + 4] # Slash /\ url[p + 5] = Slash
    /\ url[p + 6] = "pull" /\ url[p + 7] = Slash
    /\ url[p + 8] \in DigitStrings
    /\ (Len(url) = p + 8 \/ url[p + 9] = Slash)

NoTarget == [owner |-> "", repo |-> "", prNum |-> 0]

parsePRURL(url) ==
    LET starts == { p \in 1..Len(url) : MatchesAt(url, p) }
    IN  IF starts = {}
        THEN [target |-> NoTarget, err |-> NewError("invalid PR URL format")]
        ELSE LET p == CHOOSE q \in starts : \A o \in starts : q <= o
                 prNum == ParseInt(url[p + 8])
             IN  IF prNum.err # Nil
                 THEN [target |-> NoTarget, err |-> Wrap("invalid PR number: ", prNum.err)]
                 ELSE [target |-> [owner |-> url[p + 2], repo |-> url[p + 4],
                                   prNum |-> prNum.value],
                       err |-> Nil]

WebhookAcceptedOnlyOK(status) == status = StatusOK

\* resp.StatusCode == http.StatusOK || resp.StatusCode == http.StatusAccepted
WebhookAccepted(status) == status = StatusOK \/ status = StatusAccepted

\* fmt.Errorf("webhook returned status %d", resp.StatusCode)
WebhookRejected(status) ==
    << [typ |-> "errorString", msg |-> <<"webhook returned status ", Decimal(status)>>] >>

\* sendWebhook: what the HTTP client does with the request (newRequest and
\* do are errors or Nil, status the status code of the response), whether
\* a request went out, and the error returned
sendWebhook(newRequest, do, status) ==
    IF newRequest # Nil
    THEN [sent |-> FALSE, status |-> 0, err |-> Wrap("creating request: ", newRequest)]
    ELSE IF do # Nil
    THEN [sent |-> TRUE, status |-> 0, err |-> Wrap("sending request: ", do)]
    ELSE IF WebhookAccepted(status) THEN [sent |-> TRUE, status |-> status, err |-> Nil]
    ELSE [sent |-> TRUE, status |-> status, err |-> WebhookRejected(status)]

PRURLs ==
    { <<"https:", Slash, Slash, "github.com", Slash, "owner", Slash, "repo", Slash, "pull", Slash, "123">>,
      <<"https:", Slash, Slash, "github.com", Slash, "owner", Slash, "repo", Slash, "pull", Slash, "7", Slash, "files">>,
      <<"https:", Slash, Slash, "github.com", Slash, "owner", Slash, "repo", Slash, "issues", Slash, "123">>,
      <<"https:", Slash, Slash, "github.com", Slash, "owner", Slash, "repo", Slash, "pull", Slash, "99999999999999999999">>,
      <<"https:", Slash, Slash, "github.com", Slash, "owner", Slash, "repo", Slash, "pull", Slash, "12a">>,
      <<"https:", Slash, Slash, "github.com", Slash, "owner", Slash, Slash, "pull", Slash, "123">> }

WebhookURLs == {"http://localhost:8080/webhook", "://bad"}

CommandLines ==
    { CommandLine(tf, te, sf, se, idf, ide, url, args) :
        tf \in {"", "flag-token"}, te \in {"", "env-token"},
        sf \in {"", "flag-secret"}, se \in {"", "env-secret"},
        idf \in {0, 42}, ide \in {"", "7", "0", "seven"},
        url \in WebhookURLs, args \in {<<>>} \cup { <<u>> : u \in PRURLs } }

Cli(pc, line, cfg, target, steps, sent, status, ret) ==
    [pc |-> pc, line |-> line, cfg |-> cfg, target |-> target, steps |-> steps,
     sent |-> sent, status |-> status, ret |-> ret]

NoLine == CommandLine("", "", "", "", 0, "", "", <<>>)

NoCli == Cli("idle", NoLine, CliConfig("", "", "", 0), NoTarget, <<>>, FALSE, 0, Nil)

\* the tool is started with a command line and an environment
StartRun ==
    /\ cli = NoCli
    /\ \E line \in CommandLines : cli' = [NoCli EXCEPT !.pc = "config", !.line = line]
    /\ UNCHANGED <<files, listing, runVars, evalVars, domVars>>

\* run, lines 32-35
RunParseCliConfig ==
    /\ cli.pc = "config"
    /\ LET parsed == parseCliConfig(cli.line)
       IN  cli' = [cli EXCEPT !.steps = Append(@, "parseCliConfig"),
                              !.cfg = parsed.cfg,
                              !.ret = parsed.err,
                              !.pc = IF parsed.err # Nil THEN "done" ELSE "url"]
    /\ UNCHANGED <<files, listing, runVars, evalVars, domVars>>

\* run, lines 37-41
RunParsePRURL ==
    /\ cli.pc = "url"
    /\ LET parsed == parsePRURL(cli.line.args[1])
       IN  cli' = [cli EXCEPT !.steps = Append(@, "parsePRURL"),
                              !.target = parsed.target,
                              !.ret = IF parsed.err # Nil
                                      THEN Wrap("parsing PR URL: ", parsed.err) ELSE Nil,
                              !.pc = IF parsed.err # Nil THEN "done" ELSE "pr"]
    /\ UNCHANGED <<files, listing, runVars, evalVars, domVars>>

\* run, lines 43-47: fetchPRDetails, the GitHub API answering or failing
RunFetchPRDetails ==
    /\ cli.pc = "pr"
    /\ \E get \in {Nil} \cup ApiErrors :
         cli' = [cli EXCEPT !.steps = Append(@, "fetchPRDetails"),
                            !.ret = IF get # Nil THEN Wrap("fetching PR: ", get) ELSE Nil,
                            !.pc = IF get # Nil THEN "done" ELSE "send"]
    /\ UNCHANGED <<files, listing, runVars, evalVars, domVars>>

\* run, lines 49-50: the payload is built and sendWebhook is called
RunSendWebhook ==
    /\ cli.pc = "send"
    /\ \E do \in {Nil, NewError("connection refused")}, status \in {StatusOK, StatusAccepted, 404, 500} :
         LET newRequest == IF cli.cfg.webhookURL = "://bad"
                           THEN NewError("missing protocol scheme") ELSE Nil
             out == sendWebhook(newRequest, do, status)
         IN  cli' = [cli EXCEPT !.steps = Append(@, "sendWebhook"),
                                !.sent = out.sent,
                                !.status = out.status,
                                !.ret = out.err,
                                !.pc = "done"]
    /\ UNCHANGED <<files, listing, runVars, evalVars, domVars>>

(***************************************************************************)
(* Chart names of the changed files (domain.ExtractChartNames).  A path is *)
(* a sequence of tokens: its segments, and "/" between them.               *)
(***************************************************************************)
\* strings.HasPrefix(s, prefix)
HasPrefix(s, prefix) ==
    Len(s) >= Len(prefix) /\ SubSeq(s, 1, Len(prefix)) = prefix

\* the position of the first sep in s, 0 when there is none
RECURSIVE IndexOf(_, _, _)
IndexOf(s, sep, from) ==
    IF from > Len(s) THEN 0
    ELSE IF s[from] = sep THEN from
    ELSE IndexOf(s, sep, from + 1)

\* strings.SplitN(s, sep, n): at most n parts, the last one the unsplit rest
RECURSIVE SplitN(_, _, _)
SplitN(s, sep, n) ==
    LET k == IndexOf(s, sep, 1)
    IN  IF n = 1 \/ k = 0 THEN <<s>>
        ELSE <<SubSeq(s, 1, k - 1)>> \o SplitN(SubSeq(s, k + 1, Len(s)), sep, n - 1)

\* the parts of a path name a chart: parts[1] is there and is not empty
HasName(parts) == ~(Len(parts) < 2 \/ parts[2] = <<>>)

RECURSIVE ExtractLoop(_, _, _)
ExtractLoop(fileList, seen, names) ==
    IF fileList = <<>> THEN names
    ELSE LET f == Head(fileList)
             parts == SplitN(f, Slash, 3)
         IN  IF ~HasPrefix(f, <<"charts", Slash>>) THEN ExtractLoop(Tail(fileList), seen, names)
             ELSE IF ~HasName(parts) THEN ExtractLoop(Tail(fileList), seen, names)
             ELSE IF parts[2] \in seen THEN ExtractLoop(Tail(fileList), seen, names)
             ELSE ExtractLoop(Tail(fileList), seen \cup {parts[2]}, Append(names, parts[2]))

ExtractChartNames(fileList) == ExtractLoop(fileList, {}, <<>>)

MaxFiles == 3

\* paths of changed files: under charts/{name}/, directly under charts/,
\* with an empty name, and outside charts/
ChangedPaths ==
    { <<"charts", Slash, "my-app", Slash, "values.yaml">>,
      <<"charts", Slash, "my-app", Slash, "templates", Slash, "deployment.yaml">>,
      <<"charts", Slash, "new-chart", Slash, "Chart.yaml">>,
      <<"charts", Slash, "README.md">>,
      <<"charts", Slash>>,
      <<"charts", Slash, Slash, "values.yaml">>,
      <<"docs", Slash, "charts", Slash, "my-app", Slash, "notes.md">>,
      <<"README.md">> }

\* no changed files, no listing in progress, the tool not started
ReqIdle ==
    /\ files = <<>>
    /\ listing = NoListing
    /\ cli = NoCli

AppendFile ==
    /\ Len(files) < MaxFiles
    /\ \E f \in ChangedPaths : files' = Append(files, f)
    /\ call' = [fn |-> "none", arg |-> 0, ret |-> <<>>]
    /\ UNCHANGED <<results, golden, listing, cli, runVars, evalVars, errVars, wsVars>>

CallExtractChartNames ==
    /\ call' = [fn |-> "ExtractChartNames", arg |-> 0, ret |-> ExtractChartNames(files)]
    /\ UNCHANGED <<results, golden, runVars, evalVars, errVars, wsVars, reqVars>>

(***************************************************************************)
(* The report formatters (formatCheckRunMarkdown, formatPRComment).  A     *)
(* strings.Builder holds a text; a piece ending in a line break is a text  *)
(* whose last line is empty.  The dash of the source is written "--".      *)
(***************************************************************************)
\* "\n"
NL == << <<>>, <<>> >>

\* the tokens of one line, followed by "\n"
Line(toks) == << toks, <<>> >>

\* sb.WriteString(piece) / fmt.Fprintf(&sb, ...)
Write(sb, piece) ==
    IF sb = EmptyText THEN piece
    ELSE IF piece = EmptyText THEN sb
    ELSE SubSeq(sb, 1, Len(sb) - 1) \o << sb[Len(sb)] \o piece[1] >> \o Tail(piece)

RECURSIVE WriteAll(_, _)
WriteAll(sb, pieces) ==
    IF pieces = <<>> THEN sb ELSE WriteAll(Write(sb, Head(pieces)), Tail(pieces))

StatusLabelErrorChanged(r) ==
    IF r.Status # StatusSuccess THEN "Changed" ELSE "No Changes"

\* status := "No Changes"; if r.Status == domain.StatusChanges { status = "Changed" }
StatusLabel(r) ==
    IF r.Status = StatusChanges THEN "Changed" ELSE "No Changes"

CountChangedOrError(rs) ==
    Cardinality({ i \in 1..Len(rs) : rs[i].Status # StatusSuccess })

\* changed++ for a result with status Changes (unchanged++ for any other)
CountChanged(rs) ==
    Cardinality({ i \in 1..Len(rs) : rs[i].Status = StatusChanges })

\* the code fence (three backquotes)
Fence == "<fence>"

\* fence "diff\n%s\n" fence "\n"
DiffBlock(diff) ==
    WriteAll(EmptyText, << Line(<<Fence, "diff">>), diff, NL, Line(<<Fence>>) >>)

CheckRunDetailUnifiedFirst(r) ==
    IF r.UnifiedDiff = EmptyText /\ r.SemanticDiff = EmptyText
    THEN Line(<<"No changes detected.">>)
    ELSE WriteAll(EmptyText,
           << IF r.UnifiedDiff # EmptyText
              THEN Write(Line(<<"**Unified Diff (line-based):**">>), DiffBlock(r.UnifiedDiff))
              ELSE EmptyText,
              IF r.SemanticDiff # EmptyText
              THEN WriteAll(EmptyText, << Line(<<"**Semantic Diff (dyff):**">>),
                                          DiffBlock(r.SemanticDiff), NL >>)
              ELSE EmptyText >>)

\* the inside of one collapsible section of the check-run document
CheckRunDetail(r) ==
    IF r.UnifiedDiff = EmptyText /\ r.SemanticDiff = EmptyText
    THEN Line(<<"No changes detected.">>)
    ELSE WriteAll(EmptyText,
           << IF r.SemanticDiff # EmptyText
              THEN WriteAll(EmptyText, << Line(<<"**Semantic Diff (dyff):**">>),
                                          DiffBlock(r.SemanticDiff), NL >>)
              ELSE EmptyText,
              IF r.UnifiedDiff # EmptyText
              THEN Write(Line(<<"**Unified Diff (line-based):**">>), DiffBlock(r.UnifiedDiff))
              ELSE EmptyText >>)

\* one iteration of the section loop
CheckRunSection(sb, i, r) ==
    WriteAll(sb,
      << IF i > 1 THEN NL ELSE EmptyText,
         Line(<<"<details><summary>", r.Environment, " -- ", StatusLabel(r), "</summary>">>),
         NL,
         CheckRunDetail(r),
         NL, Line(<<"</details>">>) >>)

RECURSIVE CheckRunSections(_, _, _)
CheckRunSections(sb, rs, i) ==
    IF i > Len(rs) THEN sb
    ELSE CheckRunSections(CheckRunSection(sb, i, rs[i]), rs, i + 1)

CheckRunHeader(rs) ==
    LET chartName == rs[1].ChartName
        changed == CountChanged(rs)
        unchanged == Len(rs) - changed
        conclusion == IF changed > 0 THEN "neutral" ELSE "success"
    IN  WriteAll(EmptyText,
          << Line(<<"# chart-sentry: ", chartName>>), NL,
             Line(<<"**Status:** completed">>),
             Line(<<"**Conclusion:** ", conclusion>>), NL,
             Line(<<"## Helm diff -- ", chartName>>), NL,
             Line(<<"### Summary">>),
             Line(<<"Analyzed ", Decimal(Len(rs)), " environment(s): ", Decimal(changed),
                    " changed, ", Decimal(unchanged), " unchanged">>), NL,
             Line(<<"### Output">>) >>)

\* a formatter whose header is computed from every result of the run
formatCheckRunMarkdownOfRun(rs) ==
    IF Len(rs) = 0 THEN EmptyText
    ELSE CheckRunSections(CheckRunHeader(results), rs, 1)

formatCheckRunMarkdown(rs) ==
    IF Len(rs) = 0 THEN EmptyText
    ELSE CheckRunSections(CheckRunHeader(rs), rs, 1)

\* one row of the summary table
TableRow(r) == Line(<<"| ", r.ChartName, " | ", r.Environment, " | ", StatusLabel(r), " |">>)

RECURSIVE TableRows(_, _)
TableRows(sb, rs) ==
    IF rs = <<>> THEN sb ELSE TableRows(Write(sb, TableRow(Head(rs))), Tail(rs))

\* diffToShow := r.SemanticDiff; if diffToShow == "" { diffToShow = r.UnifiedDiff }
DiffToShow(r) ==
    IF r.SemanticDiff = EmptyText THEN r.UnifiedDiff ELSE r.SemanticDiff

PRDetailBothDiffs(r) ==
    IF r.Status # StatusChanges
    THEN WriteAll(EmptyText, << Line(<<"### ", r.ChartName, "/", r.Environment>>),
                                Line(<<"No changes detected.">>), NL >>)
    ELSE WriteAll(EmptyText,
           << Line(<<"### ", r.ChartName, "/", r.Environment>>),
              Line(<<"<details><summary>View diff</summary>">>), NL,
              DiffBlock(r.SemanticDiff), DiffBlock(r.UnifiedDiff),
              Line(<<"</details>">>), NL >>)

\* one iteration of the detail loop of the summary document
PRDetail(r) ==
    IF r.Status # StatusChanges
    THEN WriteAll(EmptyText, << Line(<<"### ", r.ChartName, "/", r.Environment>>),
                                Line(<<"No changes detected.">>), NL >>)
    ELSE WriteAll(EmptyText,
           << Line(<<"### ", r.ChartName, "/", r.Environment>>),
              Line(<<"<details><summary>View diff</summary>">>), NL,
              DiffBlock(DiffToShow(r)),
              Line(<<"</details>">>), NL >>)

RECURSIVE PRDetails(_, _)
PRDetails(sb, rs) ==
    IF rs = <<>> THEN sb ELSE PRDetails(Write(sb, PRDetail(Head(rs))), Tail(rs))

PRHeader ==
    WriteAll(EmptyText,
      << Line(<<"## Chart-Sentry Diff Report">>), NL,
         Line(<<"| Chart | Environment | Status |">>),
         Line(<<"|-------|-------------|--------|">>) >>)

formatPRComment(rs) == PRDetails(Write(TableRows(PRHeader, rs), NL), rs)

(***************************************************************************)
(* The domain functions applied to a sequence of results.                  *)
(***************************************************************************)
SampleUnified ==
    LineDiff(<<"base">>, <<"head">>, ManifestText(<<"replicas: 3">>),
             ManifestText(<<"replicas: 5">>))

SampleSemantic ==
    ComputeDiff(<<"base">>, <<"head">>,
                DyffEnv(TRUE, TRUE, "/tmp/chart-sentry-dyff-1", TRUE, TRUE,
                        DyffBanner("/tmp/chart-sentry-dyff-1", "one") \o DyffReport
                            \o << <<>> >>,
                        EmptyText))

Charts == {"my-app", "new-chart"}

Envs == {"prod", "staging"}

\* the shapes of result the pipeline emits: Success, Changes with either
\* diff or both, Error
ResultShapes(c, e) ==
    [success |-> DiffResult(c, e, BaseRef, HeadRef, StatusSuccess, EmptyText, EmptyText,
                            NoChangesSummary),
     unified |-> DiffResult(c, e, BaseRef, HeadRef, StatusChanges, SampleUnified, EmptyText,
                            ChangesSummary(c, e)),
     both |-> DiffResult(c, e, BaseRef, HeadRef, StatusChanges, SampleUnified,
                         SampleSemantic, ChangesSummary(c, e)),
     semantic |-> DiffResult(c, e, BaseRef, HeadRef, StatusChanges, EmptyText, SampleSemantic,
                             ChangesSummary(c, e)),
     error |-> DiffResult(c, e, BaseRef, HeadRef, StatusError, EmptyText, EmptyText,
                          <<"template error">>)]

DomainResults ==
    { ResultShapes("my-app", "prod")[k] : k \in {"success", "unified", "both", "error"} }
        \cup { ResultShapes("my-app", "staging")[k] : k \in {"semantic", "error"} }
        \cup { ResultShapes("new-chart", "prod")[k] : k \in {"success", "both"} }

\* the inputs of the golden-file runs
FormatResults ==
    { ResultShapes("my-app", "prod").both, ResultShapes("my-app", "staging").error,
      ResultShapes("new-chart", "prod").success }

NoCall == [fn |-> "none", arg |-> 0, ret |-> <<>>]

\* no golden file has been written
NoGolden == [fn |-> "none", input |-> <<>>, doc |-> EmptyText]

DomIdle ==
    /\ results = <<>>
    /\ call = NoCall
    /\ golden = NoGolden
    /\ lastErr = Nil
    /\ WsIdle
    /\ ReqIdle

DomInit == DomIdle

AppendResult ==
    /\ Len(results) < MaxResults
    /\ \E r \in DomainResults : results' = Append(results, r)
    /\ call' = NoCall
    /\ UNCHANGED <<golden, runVars, evalVars, errVars, wsVars, reqVars>>

CallPreferredDiff ==
    /\ \E i \in 1..Len(results) :
         call' = [fn |-> "PreferredDiff", arg |-> i, ret |-> PreferredDiff(results[i])]
    /\ UNCHANGED <<results, golden, runVars, evalVars, errVars, wsVars, reqVars>>

CallGroupByChartInPlace ==
    /\ call' = [fn |-> "GroupByChart", arg |-> 0, ret |-> GroupByChart(results)]
    /\ results' = [k \in 1..Len(results) |->
                      [results[k] EXCEPT !.HasChanges = (results[k].Status = StatusChanges)]]
    /\ UNCHANGED <<golden, runVars, evalVars, errVars, wsVars, reqVars>>

CallGroupByChart ==
    /\ call' = [fn |-> "GroupByChart", arg |-> 0, ret |-> GroupByChart(results)]
    /\ UNCHANGED <<results, golden, runVars, evalVars, errVars, wsVars, reqVars>>

CallCountByStatus ==
    /\ call' = [fn |-> "CountByStatus", arg |-> 0, ret |-> CountByStatus(results)]
    /\ UNCHANGED <<results, golden, runVars, evalVars, errVars, wsVars, reqVars>>

\* the input of a formatCheckRunMarkdown call: every result (arg 0) or the
\* arg-th group of GroupByChart
CheckRunInput(arg) ==
    IF arg = 0 THEN results ELSE GroupByChart(results)[arg]

CallFormatCheckRun ==
    /\ \E g \in 0..Len(GroupByChart(results)) :
         call' = [fn |-> "formatCheckRunMarkdown", arg |-> g,
                  ret |-> formatCheckRunMarkdown(CheckRunInput(g))]
    /\ UNCHANGED <<results, golden, runVars, evalVars, errVars, wsVars, reqVars>>

CallFormatPRComment ==
    /\ call' = [fn |-> "formatPRComment", arg |-> 0, ret |-> formatPRComment(results)]
    /\ UNCHANGED <<results, golden, runVars, evalVars, errVars, wsVars, reqVars>>

Formatters == {"formatCheckRunMarkdown", "formatPRComment"}

\* the input of the last formatter call
CallInput == IF call.fn = "formatCheckRunMarkdown" THEN CheckRunInput(call.arg) ELSE results

AppendFormatResult ==
    /\ Len(results) < MaxResults
    /\ \E r \in FormatResults : results' = Append(results, r)
    /\ call' = NoCall
    /\ UNCHANGED <<golden, runVars, evalVars, errVars, wsVars, reqVars>>

\* compareOrUpdateGolden with -update: the document becomes the golden file
UpdateGolden ==
    /\ call.fn \in Formatters
    /\ golden' = [fn |-> call.fn, input |-> CallInput, doc |-> call.ret]
    /\ UNCHANGED <<results, call, runVars, evalVars, errVars, wsVars, reqVars>>

\* a later run of the test starts from no results; the golden file stays
NewRun ==
    /\ results # <<>>
    /\ results' = <<>>
    /\ call' = NoCall
    /\ UNCHANGED <<golden, runVars, evalVars, errVars, wsVars, reqVars>>

(***************************************************************************)
(* IsNotFound applied to error values: an error of the collaborators or a  *)
(* NotFoundError, wrapped any number of times.                             *)
(***************************************************************************)
BaseErrors ==
    { NewNotFoundError("resource", "ref"),
      NewError("file not found in archive"),
      NewError("no such file or directory"),
      NewError("HTTP 404 Not Found"),
      NewError("permission denied"),
      NewError(""),
      UnexpectedStatus(404) }

WrapPrefixes == {"failed to fetch: ", "getting archive link: ", "downloading archive: "}

NewErr ==
    /\ \E e \in BaseErrors \cup {Nil} : lastErr' = e
    /\ call' = NoCall
    /\ UNCHANGED <<results, golden, runVars, evalVars, wsVars, reqVars>>

\* fmt.Errorf("...: %w", err)
WrapErr ==
    /\ lastErr # Nil
    /\ Len(lastErr) < MaxDepth
    /\ \E p \in WrapPrefixes : lastErr' = Wrap(p, lastErr)
    /\ call' = NoCall
    /\ UNCHANGED <<results, golden, runVars, evalVars, wsVars, reqVars>>

CallIsNotFound ==
    /\ call' = [fn |-> "IsNotFound", arg |-> 0, ret |-> IsNotFound(lastErr)]
    /\ UNCHANGED <<results, golden, lastErr, runVars, evalVars, wsVars, reqVars>>

(***************************************************************************)
(* Specifications.                                                         *)
(***************************************************************************)
Init == RunInit /\ EvalInit /\ DomIdle

Next ==
    \/ \E i \in 1..nEnvs : EvaluateTask(i)
    \/ Collect

Spec == Init /\ [][Next]_vars

InitEval == RunIdle /\ EvalInit /\ DomIdle

NextEval ==
    \/ Evaluate
    \/ EvalReset

SpecEval == InitEval /\ [][NextEval]_vars

InitDomain == RunIdle /\ EvalInit /\ DomInit

NextDomain ==
    \/ AppendResult
    \/ CallPreferredDiff
    \/ CallGroupByChart
    \/ CallCountByStatus
    \/ CallFormatCheckRun
    \/ CallFormatPRComment

SpecDomain == InitDomain /\ [][NextDomain]_vars

InitFormat == RunIdle /\ EvalInit /\ DomInit

NextFormat ==
    \/ AppendFormatResult
    \/ CallFormatCheckRun
    \/ CallFormatPRComment
    \/ CallGroupByChart
    \/ UpdateGolden
    \/ NewRun

SpecFormat == InitFormat /\ [][NextFormat]_vars

InitErrors == RunIdle /\ EvalInit /\ DomIdle

NextErrors ==
    \/ NewErr
    \/ WrapErr
    \/ CallIsNotFound

SpecErrors == InitErrors /\ [][NextErrors]_vars

InitWorkspace == RunIdle /\ EvalInit /\ DomIdle

NextWorkspace ==
    \E i \in 1..MaxCalls :
        \/ StartDyff(i)
        \/ StartFetch(i)
        \/ MkdirTemp(i)
        \/ Return(i)
        \/ Cleanup(i)

SpecWorkspace == InitWorkspace /\ [][NextWorkspace]_vars

\* one chart evaluation: one environment and its calls
InitCancel == RunInit /\ nEnvs = 1 /\ EvalInit /\ DomIdle

NextCancel ==
    \/ \E i \in 1..MaxCalls : Launch(i)
    \/ \E i \in 1..MaxCalls : MkdirTemp(i)
    \/ \E i \in 1..MaxCalls : Return(i)
    \/ \E i \in 1..MaxCalls : Cleanup(i)
    \/ \E i \in 1..MaxCalls : Abort(i)
    \/ Cancel
    \/ ReportEvaluation

\* the program's own steps are taken; nothing makes the network answer or
\* the dyff subprocess exit
FairCancel ==
    \A i \in 1..MaxCalls :
        WF_vars(Proceed(i)) /\ WF_vars(Cleanup(i)) /\ WF_vars(Abort(i))

SpecCancel == InitCancel /\ [][NextCancel]_vars /\ FairCancel

InitCharts == RunIdle /\ EvalInit /\ DomIdle

NextCharts ==
    \/ AppendFile
    \/ CallExtractChartNames

SpecCharts == InitCharts /\ [][NextCharts]_vars

InitListing == RunIdle /\ EvalInit /\ DomIdle

NextListing ==
    \/ StartListing
    \/ ListFiles

\* every request is answered, so the loop takes its next turn
SpecListing == InitListing /\ [][NextListing]_vars /\ WF_vars(ListFiles)

InitCli == RunIdle /\ EvalInit /\ DomIdle

NextCli ==
    \/ StartRun
    \/ RunParseCliConfig
    \/ RunParsePRURL
    \/ RunFetchPRDetails
    \/ RunSendWebhook

SpecCli == InitCli /\ [][NextCli]_vars

(***************************************************************************)
(* Properties.                                                             *)
(***************************************************************************)
BaseLabel(env) == FormatDiffLabel(Chart, env, BaseRef)
HeadLabel(env) == FormatDiffLabel(Chart, env, HeadRef)

\* both manifests were obtained (an absent chart gives the empty manifest)
BothObtained ==
    /\ Evaluated
    /\ evalIn.base.kind \in {"ok", "notfound"}
    /\ evalIn.head.kind \in {"ok", "notfound"}

\* C1: when both manifests were obtained, the emitted result carries the two
\* differs' outputs, is Success with summary "No changes detected." exactly
\* when both outputs are empty, and is Changes as soon as either is non-empty.
C1_ClassifiedByEmptiness ==
    BothObtained =>
        LET r == evalOut.result
            semantic == ComputeDiff(BaseLabel(evalIn.env), HeadLabel(evalIn.env), evalIn.dyff)
            unified == LineDiff(BaseLabel(evalIn.env), HeadLabel(evalIn.env),
                                ManifestOf(evalIn.base), ManifestOf(evalIn.head))
        IN  /\ evalOut.emitted
            /\ r.SemanticDiff = semantic
            /\ r.UnifiedDiff = unified
            /\ (r.Status = StatusSuccess /\ r.Summary = NoChangesSummary)
                   <=> (semantic = EmptyText /\ unified = EmptyText)
            /\ (semantic # EmptyText \/ unified # EmptyText) => r.Status = StatusChanges

\* the semantic diff is empty, the unified diff is not, and the result is Changes
C1_Witness ==
    /\ BothObtained
    /\ evalOut.result.SemanticDiff = EmptyText
    /\ evalOut.result.UnifiedDiff # EmptyText
    /\ evalOut.result.Status = StatusChanges

\* the status invariant of one DiffResult; fail is the failure of its
\* environment's evaluation (NoFailure when it did not fail)
StatusInvariant(r, fail) ==
    /\ r.Status \in Statuses
    /\ r.Status = StatusSuccess =>
           r.SemanticDiff = EmptyText /\ r.UnifiedDiff = EmptyText
    /\ r.Status = StatusChanges =>
           r.SemanticDiff # EmptyText \/ r.UnifiedDiff # EmptyText
    /\ r.Status = StatusError =>
           /\ r.SemanticDiff = EmptyText /\ r.UnifiedDiff = EmptyText
           /\ fail # NoFailure
           /\ r.Summary = fail

\* C2: every DiffResult the run has emitted (a completed task's slot, a
\* reported result) satisfies the status invariant: Success has both diffs
\* empty, Changes has one non-empty, Error has both empty and the failure's
\* description as summary.
C2_StatusInvariant ==
    /\ \A i \in 1..nEnvs : InSeq(i, completed) => StatusInvariant(slots[i], failure[i])
    /\ \A k \in 1..Len(reported) :
           \E i \in 1..nEnvs :
               reported[k] = slots[i] /\ StatusInvariant(reported[k], failure[i])

\* a reported run holding an Error result and a Changes result
C2_Witness ==
    /\ runPhase = "reported"
    /\ \E k \in 1..Len(reported) : reported[k].Status = StatusError
    /\ \E k \in 1..Len(reported) : reported[k].Status = StatusChanges

\* the chart is absent at the base revision and was rendered at head
NewChart ==
    /\ Evaluated
    /\ evalIn.baseFetch = ChartAbsent
    /\ evalIn.head.kind = "ok"

\* the content lines of a manifest (its line-break-terminated lines)
ContentLines(manifest) == SubSeq(manifest, 1, Len(manifest) - 1)

\* C3: with the chart absent at base and rendered at head, a result is
\* emitted from the empty base manifest and is Success or Changes, never
\* Error; when the head manifest is non-empty it is Changes and the unified
\* diff holds every head line as an added line and no removed line.
C3_NewChartNeverError ==
    NewChart =>
        LET r == evalOut.result
            head == evalIn.head.manifest
        IN  /\ evalOut.emitted
            /\ evalIn.base.kind = "notfound"
            /\ ManifestOf(evalIn.base) = EmptyText
            /\ r.Status \in {StatusSuccess, StatusChanges}
            /\ head # EmptyText =>
                   /\ r.Status = StatusChanges
                   /\ \A i \in 1..Len(ContentLines(head)) :
                          InSeq(<<"+">> \o head[i], r.UnifiedDiff)
                   /\ \A k \in 1..Len(r.UnifiedDiff) : r.UnifiedDiff[k][1] # "-"

\* a new chart with a two-line head manifest, dyff not installed: Changes
C3_Witness ==
    /\ NewChart
    /\ Len(ContentLines(evalIn.head.manifest)) >= 2
    /\ ~evalIn.dyff.lookPath
    /\ evalOut.emitted
    /\ evalOut.result.Status = StatusChanges

\* the results reported for the environment of discovery index i
ReportedFor(i) == { k \in 1..Len(reported) : reported[k].Environment = EnvNames[i] }

\* C4: a failed environment does not stop the others (every task that has
\* not completed can still run); in a reported run the report holds as many
\* results as environments were attempted, exactly one per environment, and
\* the one of a failed environment is Error with the failure as summary.
C4_FailureIsContained ==
    /\ \A i \in 1..nEnvs :
           (runPhase = "running" /\ ~InSeq(i, completed)) => ENABLED EvaluateTask(i)
    /\ runPhase = "reported" =>
           /\ Len(reported) = Len(completed)
           /\ Len(completed) = nEnvs
           /\ \A i \in 1..nEnvs :
                  /\ Cardinality(ReportedFor(i)) = 1
                  /\ failure[i] # NoFailure =>
                         \A k \in ReportedFor(i) :
                             /\ reported[k].Status = StatusError
                             /\ reported[k].Summary = failure[i]

\* a reported run whose first environment failed and whose second did not
C4_Witness ==
    /\ runPhase = "reported"
    /\ nEnvs >= 2
    /\ failure[1] # NoFailure
    /\ failure[2] = NoFailure
    /\ reported[2].Status # StatusError

\* C5: whatever the completion order of the tasks, result i of the report
\* is the result of the i-th discovered environment.
C5_DiscoveryOrder ==
    runPhase = "reported" =>
        /\ Len(reported) = nEnvs
        /\ \A i \in 1..nEnvs :
               /\ reported[i].Environment = EnvNames[i]
               /\ reported[i] = slots[i]

\* a reported run whose second environment completed before its first
C5_Witness ==
    /\ runPhase = "reported"
    /\ nEnvs >= 2
    /\ completed[1] = 2
    /\ reported[1].Environment = EnvNames[1]

\* C6: byte-equal manifests (both empty included): the semantic differ and
\* the line differ both return the empty string and the result is Success.
C6_EqualManifestsNoDiff ==
    (BothObtained /\ ManifestOf(evalIn.base) = ManifestOf(evalIn.head)) =>
        /\ ComputeDiff(BaseLabel(evalIn.env), HeadLabel(evalIn.env), evalIn.dyff) = EmptyText
        /\ LineDiff(BaseLabel(evalIn.env), HeadLabel(evalIn.env),
                    ManifestOf(evalIn.base), ManifestOf(evalIn.head)) = EmptyText
        /\ evalOut.emitted
        /\ evalOut.result.SemanticDiff = EmptyText
        /\ evalOut.result.UnifiedDiff = EmptyText
        /\ evalOut.result.Status = StatusSuccess

\* equal non-empty manifests, dyff ran and printed its banner: Success
C6_Witness ==
    /\ BothObtained
    /\ ManifestOf(evalIn.base) = ManifestOf(evalIn.head)
    /\ ManifestOf(evalIn.base) # EmptyText
    /\ DyffAvailable(evalIn.dyff)
    /\ evalOut.result.Status = StatusSuccess

\* C7: manifests that differ: one of the two diffs is non-empty and the
\* result is Changes; when the semantic diff is empty (tool unavailable,
\* or no semantic difference) the unified diff is non-empty.
C7_DifferentManifestsChanges ==
    (BothObtained /\ ManifestOf(evalIn.base) # ManifestOf(evalIn.head)) =>
        LET r == evalOut.result
        IN  /\ evalOut.emitted
            /\ r.SemanticDiff # EmptyText \/ r.UnifiedDiff # EmptyText
            /\ r.Status = StatusChanges
            /\ r.SemanticDiff = EmptyText => r.UnifiedDiff # EmptyText
            /\ ~DyffAvailable(evalIn.dyff) =>
                   r.SemanticDiff = EmptyText /\ r.UnifiedDiff # EmptyText

\* differing manifests, dyff not installed: Changes from the unified diff alone
C7_Witness ==
    /\ BothObtained
    /\ ManifestOf(evalIn.base) # ManifestOf(evalIn.head)
    /\ ~evalIn.dyff.lookPath
    /\ evalOut.result.SemanticDiff = EmptyText
    /\ evalOut.result.Status = StatusChanges

\* the semantic tool could not be run, or printed nothing but an error
DyffFailed(env) ==
    \/ ~env.lookPath
    \/ ~env.mkdirTemp
    \/ ~env.writeBase
    \/ ~env.writeHead
    \/ (env.stdout = EmptyText /\ env.stderr # EmptyText)

\* C8: when dyff is not found, the temp directory or a temp file cannot be
\* created, or dyff prints only to stderr, the semantic differ returns the
\* empty string and the result is classified from the unified diff alone,
\* never as Error.
C8_SemanticToolNeverFails ==
    (BothObtained /\ DyffFailed(evalIn.dyff)) =>
        LET r == evalOut.result
        IN  /\ ComputeDiff(BaseLabel(evalIn.env), HeadLabel(evalIn.env), evalIn.dyff)
                   = EmptyText
            /\ evalOut.emitted
            /\ r.SemanticDiff = EmptyText
            /\ r.Status # StatusError
            /\ r.Status = (IF r.UnifiedDiff # EmptyText THEN StatusChanges
                                                         ELSE StatusSuccess)

\* dyff printed only an error, the manifests differ: Changes, not Error
C8_Witness ==
    /\ BothObtained
    /\ evalIn.dyff.lookPath /\ evalIn.dyff.writeHead
    /\ evalIn.dyff.stdout = EmptyText
    /\ evalIn.dyff.stderr # EmptyText
    /\ evalOut.result.UnifiedDiff # EmptyText
    /\ evalOut.result.Status = StatusChanges

\* C9: PreferredDiff returns the semantic diff when it is non-empty, else
\* the unified diff; its result is empty exactly when both are empty, and
\* it is not the unified diff while a (different) semantic diff is there.
C9_PreferredDiff ==
    call.fn = "PreferredDiff" =>
        LET r == results[call.arg]
        IN  /\ r.SemanticDiff # EmptyText => call.ret = r.SemanticDiff
            /\ r.SemanticDiff = EmptyText => call.ret = r.UnifiedDiff
            /\ call.ret = EmptyText
                   <=> (r.SemanticDiff = EmptyText /\ r.UnifiedDiff = EmptyText)
            /\ (r.SemanticDiff # EmptyText /\ r.UnifiedDiff # r.SemanticDiff)
                   => call.ret # r.UnifiedDiff

\* PreferredDiff on a result with both diffs returned the semantic one
C9_Witness ==
    /\ call.fn = "PreferredDiff"
    /\ results[call.arg].SemanticDiff # EmptyText
    /\ results[call.arg].UnifiedDiff # EmptyText
    /\ call.ret = results[call.arg].SemanticDiff

ChartNamesOf(rs) == { rs[i].ChartName : i \in 1..Len(rs) }

\* the index of the first result of that chart
FirstIndex(rs, name) ==
    CHOOSE i \in 1..Len(rs) :
        /\ rs[i].ChartName = name
        /\ \A j \in 1..(i - 1) : rs[j].ChartName # name

\* C10: GroupByChart returns one non-empty group per distinct chartName:
\* a group's results share one chartName, no two groups share one, the
\* groups are in the order of their chartName's first occurrence, and a
\* group holds as many results as the input has of that chartName (equal
\* results are kept).
C10_GroupByChart ==
    call.fn = "GroupByChart" =>
        LET g == call.ret
        IN  /\ Len(g) = Cardinality(ChartNamesOf(results))
            /\ \A a \in 1..Len(g) :
                   /\ Len(g[a]) >= 1
                   /\ \A k \in 1..Len(g[a]) : g[a][k].ChartName = g[a][1].ChartName
                   /\ Len(g[a]) = Cardinality({ i \in 1..Len(results) :
                                                  results[i].ChartName = g[a][1].ChartName })
            /\ \A a, b \in 1..Len(g) :
                   a < b =>
                       /\ g[a][1].ChartName # g[b][1].ChartName
                       /\ FirstIndex(results, g[a][1].ChartName)
                              < FirstIndex(results, g[b][1].ChartName)

\* an input a, b, a with two equal results: two groups, the first of two
C10_Witness ==
    /\ call.fn = "GroupByChart"
    /\ Len(results) = 3
    /\ results[1] = results[3]
    /\ results[2].ChartName # results[1].ChartName
    /\ Len(call.ret) = 2
    /\ Len(call.ret[1]) = 2

RECURSIVE Flatten(_)
Flatten(groups) ==
    IF groups = <<>> THEN <<>> ELSE Head(groups) \o Flatten(Tail(groups))

\* the results of one chart, in the order of the sequence
OfChart(rs, name) ==
    LET IsOfChart(r) == r.ChartName = name
    IN  SelectSeq(rs, IsOfChart)

Occurrences(rs, r) == Cardinality({ i \in 1..Len(rs) : rs[i] = r })

\* no other chart's result lies between two results of one chart
ContiguousByChart(rs) ==
    \A i, j, k \in 1..Len(rs) :
        (i < j /\ j < k /\ rs[i].ChartName = rs[k].ChartName)
            => rs[j].ChartName = rs[i].ChartName

\* C11: the concatenation of the groups of GroupByChart is a permutation of
\* the input (same length, every result as often as in the input) that keeps
\* the input order among the results of one chart, and it is the input
\* itself when the input is contiguous by chart.
C11_GroupsArePermutation ==
    call.fn = "GroupByChart" =>
        LET flat == Flatten(call.ret)
        IN  /\ Len(flat) = Len(results)
            /\ \A r \in DomainResults : Occurrences(flat, r) = Occurrences(results, r)
            /\ \A c \in Charts : OfChart(flat, c) = OfChart(results, c)
            /\ ContiguousByChart(results) => flat = results

\* an input a1, b, a2 (a1 # a2 of one chart): regrouped as a1, a2, b
C11_Witness ==
    /\ call.fn = "GroupByChart"
    /\ Len(results) = 3
    /\ results[1].ChartName = results[3].ChartName
    /\ results[1] # results[3]
    /\ results[2].ChartName # results[1].ChartName
    /\ Flatten(call.ret) = <<results[1], results[3], results[2]>>

CountOf(rs, status) == Cardinality({ i \in 1..Len(rs) : rs[i].Status = status })

\* C12: CountByStatus returns, for each of the three statuses, the number of
\* results with that status; the three counts add up to the length of the
\* sequence, and the empty sequence gives (0, 0, 0).
C12_CountByStatus ==
    call.fn = "CountByStatus" =>
        /\ call.ret.success = CountOf(results, StatusSuccess)
        /\ call.ret.changes = CountOf(results, StatusChanges)
        /\ call.ret.errors = CountOf(results, StatusError)
        /\ call.ret.success + call.ret.changes + call.ret.errors = Len(results)
        /\ results = <<>> => call.ret = NoCounts

\* one result of each status was counted
C12_Witness ==
    /\ call.fn = "CountByStatus"
    /\ Len(results) = 3
    /\ call.ret = [success |-> 1, changes |-> 1, errors |-> 1]

\* the indexes of the lines of a document whose first token is tok, ascending
RECURSIVE Ascending(_)
Ascending(S) ==
    IF S = {} THEN <<>>
    ELSE LET m == CHOOSE x \in S : \A y \in S : x <= y
         IN  <<m>> \o Ascending(S \ {m})

LinesStarting(doc, tok) ==
    Ascending({ i \in 1..Len(doc) : Len(doc[i]) >= 1 /\ doc[i][1] = tok })

\* the k-th part of a document cut at the lines of starts
Section(doc, starts, k) ==
    SubSeq(doc, starts[k], IF k < Len(starts) THEN starts[k + 1] - 1 ELSE Len(doc))

\* the indexes of the lines of a text that are exactly line
Where(text, line) == { i \in 1..Len(text) : text[i] = line }

\* a diff block holding exactly diff starts at line f of the text
BlockAt(text, f, diff) ==
    /\ f + Len(diff) + 1 <= Len(text)
    /\ text[f] = <<Fence, "diff">>
    /\ SubSeq(text, f + 1, f + Len(diff)) = diff
    /\ text[f + Len(diff) + 1] = <<Fence>>

HasChanges(rs) == \E i \in 1..Len(rs) : rs[i].Status = StatusChanges

\* C13: the check-run document of a non-empty group has one conclusion line;
\* its token is "neutral" exactly when some result of the group is Changes
\* and "success" otherwise (so for a group of Success and Error results
\* only), and the summary line counts every result that is not Changes,
\* Error included, as unchanged.
C13_CheckRunConclusion ==
    (call.fn = "formatCheckRunMarkdown" /\ CallInput # <<>>) =>
        LET rs == CallInput
            doc == call.ret
            conclusions == LinesStarting(doc, "**Conclusion:** ")
            summaries == LinesStarting(doc, "Analyzed ")
        IN  /\ Len(conclusions) = 1
            /\ doc[conclusions[1]] =
                   <<"**Conclusion:** ", IF HasChanges(rs) THEN "neutral" ELSE "success">>
            /\ Len(summaries) = 1
            /\ doc[summaries[1]] =
                   <<"Analyzed ", Decimal(Len(rs)), " environment(s): ",
                     Decimal(CountOf(rs, StatusChanges)), " changed, ",
                     Decimal(CountOf(rs, StatusSuccess) + CountOf(rs, StatusError)),
                     " unchanged">>

\* a group of Error results only was formatted: conclusion "success"
C13_Witness ==
    /\ call.fn = "formatCheckRunMarkdown"
    /\ Len(CallInput) = 2
    /\ \A i \in 1..2 : CallInput[i].Status = StatusError
    /\ <<"**Conclusion:** ", "success">> \in { call.ret[i] : i \in 1..Len(call.ret) }

\* C14: the check-run document has one collapsible section per result of
\* the group, in input order, Error results included; in a section the
\* semantic diff block is there exactly when semanticDiff is non-empty, the
\* unified diff block exactly when unifiedDiff is non-empty, the semantic
\* one first, and "No changes detected." exactly when both are empty.
C14_CheckRunSections ==
    call.fn = "formatCheckRunMarkdown" =>
        LET rs == CallInput
            doc == call.ret
            starts == LinesStarting(doc, "<details><summary>")
        IN  /\ Len(starts) = Len(rs)
            /\ \A k \in 1..Len(rs) :
                   LET r == rs[k]
                       sec == Section(doc, starts, k)
                       sem == Where(sec, <<"**Semantic Diff (dyff):**">>)
                       uni == Where(sec, <<"**Unified Diff (line-based):**">>)
                   IN  /\ sec[1][2] = r.Environment
                       /\ Cardinality(Where(sec, <<"</details>">>)) = 1
                       /\ IF r.SemanticDiff # EmptyText
                          THEN /\ Cardinality(sem) = 1
                               /\ \A f \in sem : BlockAt(sec, f + 1, r.SemanticDiff)
                          ELSE sem = {}
                       /\ IF r.UnifiedDiff # EmptyText
                          THEN /\ Cardinality(uni) = 1
                               /\ \A f \in uni : BlockAt(sec, f + 1, r.UnifiedDiff)
                          ELSE uni = {}
                       /\ \A f \in sem : \A g \in uni : f < g
                       /\ (Where(sec, <<"No changes detected.">>) # {})
                              <=> (r.SemanticDiff = EmptyText /\ r.UnifiedDiff = EmptyText)

\* a group of a result with both diffs and an Error result: two sections
C14_Witness ==
    /\ call.fn = "formatCheckRunMarkdown"
    /\ Len(CallInput) = 2
    /\ CallInput[1].SemanticDiff # EmptyText
    /\ CallInput[1].UnifiedDiff # EmptyText
    /\ CallInput[1].Environment # CallInput[2].Environment
    /\ CallInput[2].Status = StatusError
    /\ Len(LinesStarting(call.ret, "<details><summary>")) = 2

\* C15: the table of the summary document has one row per result, in input
\* order, showing the result's chart and environment; the row's label is
\* "Changed" exactly when the status is Changes and "No Changes" for
\* Success and for Error.
C15_SummaryTable ==
    call.fn = "formatPRComment" =>
        LET doc == call.ret
            rows == LinesStarting(doc, "| ")
        IN  /\ Len(rows) = Len(results)
            /\ \A k \in 1..Len(results) :
                   LET row == doc[rows[k]]
                   IN  /\ Len(row) = 7
                       /\ row[2] = results[k].ChartName
                       /\ row[4] = results[k].Environment
                       /\ row[6] \in {"Changed", "No Changes"}
                       /\ row[6] = "Changed" <=> results[k].Status = StatusChanges

\* a Changes, an Error and a Success result: Changed, No Changes, No Changes
C15_Witness ==
    /\ call.fn = "formatPRComment"
    /\ Len(results) = 3
    /\ results[1].Status = StatusChanges
    /\ results[2].Status = StatusError
    /\ results[3].Status = StatusSuccess
    /\ LET rows == LinesStarting(call.ret, "| ")
       IN  /\ Len(rows) = 3
           /\ call.ret[rows[1]][6] = "Changed"
           /\ call.ret[rows[2]][6] = "No Changes"
           /\ call.ret[rows[3]][6] = "No Changes"

\* C16: the summary document has one detail section per result, in input
\* order; the section of a Changes result holds exactly one diff block, the
\* preferred diff (the semantic diff if non-empty, else the unified diff),
\* and the section of any other result holds "No changes detected." and no
\* diff block.
C16_SummaryDetails ==
    call.fn = "formatPRComment" =>
        LET doc == call.ret
            starts == LinesStarting(doc, "### ")
        IN  /\ Len(starts) = Len(results)
            /\ \A k \in 1..Len(results) :
                   LET r == results[k]
                       sec == Section(doc, starts, k)
                       blocks == Where(sec, <<Fence, "diff">>)
                       none == Where(sec, <<"No changes detected.">>)
                   IN  /\ sec[1] = <<"### ", r.ChartName, "/", r.Environment>>
                       /\ IF r.Status = StatusChanges
                          THEN /\ Cardinality(blocks) = 1
                               /\ \A f \in blocks : BlockAt(sec, f, PreferredDiff(r))
                               /\ Cardinality(Where(sec, <<Fence>>)) = 1
                               /\ none = {}
                          ELSE /\ blocks = {}
                               /\ Where(sec, <<Fence>>) = {}
                               /\ none # {}

\* a Changes result with both diffs, then an Error result: one block with
\* the semantic diff, then "No changes detected."
C16_Witness ==
    /\ call.fn = "formatPRComment"
    /\ Len(results) = 2
    /\ results[1].Status = StatusChanges
    /\ results[1].SemanticDiff # EmptyText
    /\ results[1].UnifiedDiff # EmptyText
    /\ results[1].UnifiedDiff # results[1].SemanticDiff
    /\ results[2].Status = StatusError
    /\ LET starts == LinesStarting(call.ret, "### ")
       IN  /\ Len(starts) = 2
           /\ \E f \in 1..Len(call.ret) : BlockAt(call.ret, f, results[1].SemanticDiff)
           /\ Where(Section(call.ret, starts, 2), <<"No changes detected.">>) # {}

RECURSIVE IsOrWrapsNotFound(_)
IsOrWrapsNotFound(e) ==
    IF e = Nil THEN FALSE
    ELSE Head(e).typ = "NotFoundError" \/ IsOrWrapsNotFound(Tail(e))

\* the error's message contains "not found", "no such file or directory" or "404"
TextSaysNotFound(e) ==
    \E i \in 1..Len(ErrorText(e)) : MentionsNotFound(ErrorText(e)[i])

FetchFailure(env) ==
    \/ env.archiveLink # Nil \/ env.newRequest # Nil \/ env.download # Nil
    \/ env.statusCode # StatusOK
    \/ env.mkdirTemp # Nil \/ env.extract # Nil \/ env.readDir # Nil
    \/ env.entries = 0
    \/ env.stat \notin {Nil, ErrNotExist}

\* C19: FetchChartFiles returns a NotFound error only when nothing failed
\* and the chart path does not exist in the archive of the revision; every
\* transport, authentication, HTTP-status, archive or file-system failure
\* gives an error that IsNotFound does not classify as NotFound.
C19_NotFoundOnlyWhenAbsent ==
    Evaluated =>
        LET env == evalIn.baseFetch
            fetched == FetchChartFiles(env, BaseRef, ChartPath)
        IN  /\ IsNotFound(fetched.err) => (~FetchFailure(env) /\ env.stat = ErrNotExist)
            /\ FetchFailure(env) => (fetched.err # Nil /\ ~IsNotFound(fetched.err))

\* the call's temp directory exists and is the call's own
Holds(i) == ops[i].dir # NoDir /\ fs[ops[i].dir] = i

Returned(i) == ops[i].pc \in {"returned", "cleaned"}

\* C20 as stated: a call that has returned control to its caller, on
\* whatever exit path, has no temp directory left, and no two calls have
\* the same temp directory.
C20_RemovedOnEveryReturn ==
    /\ \A i \in 1..MaxCalls : Returned(i) => ~Holds(i)
    /\ \A i, j \in 1..MaxCalls :
           (i # j /\ ops[i].pc = "working" /\ ops[j].pc = "working") => ops[i].dir # ops[j].dir

\* C20, amended: no two calls have the same temp directory, and a call at
\* work has its own; a semantic-diff call that has returned has none left; a
\* FetchChartFiles call that has returned an error has none left; one that
\* has returned without error has its directory and a cleanup function,
\* and the directory is gone once the caller has invoked cleanup().
C20_RemovedUnlessHandedOver ==
    /\ \A i, j \in 1..MaxCalls :
           (i # j /\ ops[i].pc = "working" /\ ops[j].pc = "working") => ops[i].dir # ops[j].dir
    /\ \A i \in 1..MaxCalls :
           /\ ops[i].pc = "working" => Holds(i)
           /\ (ops[i].kind = "dyff" /\ Returned(i)) => ~Holds(i)
           /\ (ops[i].kind = "fetch" /\ Returned(i) /\ ops[i].failed)
                  => (~Holds(i) /\ ~ops[i].cleanup)
           /\ (ops[i].kind = "fetch" /\ ops[i].pc = "returned" /\ ~ops[i].failed)
                  => (Holds(i) /\ ops[i].cleanup)
           /\ ops[i].pc = "cleaned" => ~Holds(i)

\* a fetch that failed after MkdirTemp has returned with its directory
\* removed, while a fetch that succeeded has returned with its directory
C20_Witness ==
    /\ ops[1].kind = "fetch" /\ ops[1].pc = "returned"
    /\ ops[1].failed /\ ops[1].dir # NoDir /\ ~Holds(1)
    /\ ops[2].kind = "fetch" /\ ops[2].pc = "returned"
    /\ ~ops[2].failed /\ Holds(2)

\* C21 as stated: once the caller's context is cancelled, nothing of the
\* evaluation is reported, and every call that was waiting on the network
\* or on the dyff subprocess at that time comes to an end with its temp
\* directory removed.
C21_CancelEndsOperations ==
    /\ [](runPhase = "cancelled" => reported = <<>>)
    /\ \A i \in 1..MaxCalls :
           (runPhase = "cancelled" /\ Blocked(i)) ~> (Returned(i) /\ ~Holds(i))

\* the marks of dyff's banner: the lines of its logo and its summary line
BannerMarks ==
    { "_        __  __", "_| |_   _ / _|/ _|", "/ _' | | | | |_| |_",
      "| (_| | |_| |  _|  _|", "\\__,_|\\__, |_| |_|", "|___/", "returned" }

Mentions(line, marks) == \E k \in 1..Len(line) : line[k] \in marks

\* two runs of dyff that printed the same report under their own banner,
\* each naming the files of its own temp directory
SameReport(e1, e2) ==
    /\ DyffAvailable(e1) /\ DyffAvailable(e2)
    /\ e1.stderr = e2.stderr
    /\ \E c1, c2 \in {"no", "one"}, report \in {EmptyText, DyffReport} :
           /\ e1.stdout = DyffBanner(e1.tmpDir, c1) \o report \o << <<>> >>
           /\ e2.stdout = DyffBanner(e2.tmpDir, c2) \o report \o << <<>> >>

\* C22: the semantic diff of an evaluation is the text any other run of
\* dyff with the same report returns, whatever its temp directory and
\* banner; when it is not empty, none of its lines mentions a temp
\* directory, the banner or "returned N differences", its first line is not
\* blank, and it starts with "--- <baseLabel>" and "+++ <headLabel>".
C22_NormalizedSemanticDiff ==
    BothObtained =>
        LET baseName == BaseLabel(evalIn.env)
            headName == HeadLabel(evalIn.env)
            out == evalOut.result.SemanticDiff
        IN  /\ \A e2 \in DyffEnvs(ManifestOf(evalIn.base), ManifestOf(evalIn.head), TmpDirs) :
                   SameReport(evalIn.dyff, e2) => ComputeDiff(baseName, headName, e2) = out
            /\ out # EmptyText =>
                   /\ \A k \in 1..Len(out) :
                          ~Mentions(out[k], TmpDirs) /\ ~Mentions(out[k], BannerMarks)
                   /\ TrimSpaceLine(out[1]) # <<>>
                   /\ Len(out) >= 2
                   /\ out[1] = <<"--- ">> \o baseName
                   /\ out[2] = <<"+++ ">> \o headName

\* dyff printed a report under a banner naming its temp directory; another
\* run in the other temp directory printed the same report
C22_Witness ==
    /\ BothObtained
    /\ evalOut.result.SemanticDiff # EmptyText
    /\ \E k \in 1..Len(evalIn.dyff.stdout) :
           Mentions(evalIn.dyff.stdout[k], {evalIn.dyff.tmpDir})
    /\ \E e2 \in DyffEnvs(ManifestOf(evalIn.base), ManifestOf(evalIn.head), TmpDirs) :
           SameReport(evalIn.dyff, e2) /\ e2.tmpDir # evalIn.dyff.tmpDir

\* a path of the form charts/{name}/...: under charts/, a name that is not
\* empty, and a separator after the name
IsChartPath(f) ==
    /\ Len(f) >= 4
    /\ f[1] = "charts" /\ f[2] = Slash
    /\ f[3] # Slash
    /\ f[4] = Slash

ChartNameOf(f) == <<f[3]>>

\* the names of the chart paths among the first n paths
NamesUpTo(fileList, n) == { ChartNameOf(fileList[k]) : k \in { j \in 1..n : IsChartPath(fileList[j]) } }

\* C23 as stated: ExtractChartNames returns exactly the names of the paths
\* of the form charts/{name}/..., each once, in order of first occurrence;
\* any other path contributes no name.
C23_ExtractChartNames ==
    call.fn = "ExtractChartNames" =>
        LET names == call.ret
            firsts == { k \in 1..Len(files) :
                          /\ IsChartPath(files[k])
                          /\ ChartNameOf(files[k]) \notin NamesUpTo(files, k - 1) }
        IN  /\ Len(names) = Cardinality(firsts)
            /\ \A i, j \in 1..Len(names) : i # j => names[i] # names[j]
            /\ \A k \in firsts :
                   names[Cardinality({ j \in firsts : j <= k })] = ChartNameOf(files[k])

\* the functions that consume results
Consumers ==
    {"PreferredDiff", "GroupByChart", "CountByStatus", "formatCheckRunMarkdown",
     "formatPRComment"}

\* C24: a DiffResult is never changed after it is emitted: every step keeps
\* the results emitted so far, field for field; a call of GroupByChart,
\* CountByStatus, PreferredDiff or a formatter leaves the whole input
\* sequence as it was; and every result in the groups GroupByChart returns
\* is equal in every field to an input result, as every input result is to
\* one in the groups.
C24_ResultsNeverChanged ==
    [][ /\ Len(results') >= Len(results)
        /\ SubSeq(results', 1, Len(results)) = results
        /\ call'.fn \in Consumers => results' = results
        /\ call'.fn = "GroupByChart" =>
               /\ \A g \in 1..Len(call'.ret) : \A k \in 1..Len(call'.ret[g]) :
                      \E i \in 1..Len(results) : call'.ret[g][k] = results[i]
               /\ \A i \in 1..Len(results) :
                      \E g \in 1..Len(call'.ret) : \E k \in 1..Len(call'.ret[g]) :
                          call'.ret[g][k] = results[i]
      ]_vars

\* GroupByChart was called on results of two charts, one of them Changes
\* with both diffs, and the input is as it was emitted
C24_Witness ==
    /\ call.fn = "GroupByChart"
    /\ Len(call.ret) = 2
    /\ Len(results) = MaxResults
    /\ \E i \in 1..Len(results) :
           /\ results[i].Status = StatusChanges
           /\ results[i].SemanticDiff # EmptyText /\ results[i].UnifiedDiff # EmptyText
           /\ results[i] \in DomainResults

\* C25: a FetchChartFiles call returns a cleanup function exactly when it
\* returns no error; when it returns an error after its temp directory was
\* created, the directory is already removed; when it returns no error the
\* directory is there until the caller invokes cleanup(), and gone after.
C25_CleanupIffNoError ==
    \A i \in 1..MaxCalls :
        ops[i].kind = "fetch" =>
            /\ Returned(i) => (ops[i].cleanup <=> ~ops[i].failed)
            /\ (Returned(i) /\ ops[i].failed /\ ops[i].dir # NoDir) => fs[ops[i].dir] # i
            /\ (ops[i].pc = "returned" /\ ~ops[i].failed) => fs[ops[i].dir] = i
            /\ ops[i].pc = "cleaned" => (~ops[i].failed /\ fs[ops[i].dir] # i)

\* one fetch succeeded and its cleanup was invoked; another failed before
\* any temp directory was created
C25_Witness ==
    /\ ops[1].kind = "fetch" /\ ops[1].pc = "cleaned" /\ fs[ops[1].dir] = 0
    /\ ops[2].kind = "fetch" /\ ops[2].pc = "returned"
    /\ ops[2].failed /\ ops[2].dir = NoDir /\ ~ops[2].cleanup

\* C26 as stated: in every emitted DiffResult the deprecated HasChanges
\* field is true exactly when the status is Changes.
C26_HasChangesAgreesWithStatus ==
    evalOut.emitted =>
        (evalOut.result.HasChanges <=> evalOut.result.Status = StatusChanges)

\* the filenames of the first n pages, page after page
RECURSIVE PagesConcat(_, _)
PagesConcat(server, n) ==
    IF n = 0 THEN <<>> ELSE PagesConcat(server, n - 1) \o server[n].files

\* C27: a GetChangedFiles call that has returned without error has
\* requested every page up to the one with NextPage = 0 and returns the
\* filenames of all pages in page order and in-page order; one that has
\* returned an error returns no list, whatever the pages before gave; and
\* the call returns whenever some response of the server has NextPage = 0.
C27_AllPagesOrNothing ==
    /\ [](listing.pc = "done" =>
             IF listing.err = Nil
             THEN /\ ListFilesOf(listing.server, listing.page).next = 0
                  /\ \A k \in 1..Len(listing.server) : listing.server[k].err = Nil
                  /\ listing.ret = PagesConcat(listing.server, Len(listing.server))
             ELSE /\ listing.ret = <<>>
                  /\ ListFilesOf(listing.server, listing.page).err # Nil)
    /\ (listing.pc = "listing"
           /\ \E k \in 1..Len(listing.server) : listing.server[k].next = 0)
          ~> (listing.pc = "done")

\* a listing of several pages has returned all their files
C27_Witness ==
    /\ listing.pc = "done"
    /\ listing.err = Nil
    /\ Len(listing.server) = MaxPages
    /\ listing.page = MaxPages
    /\ Len(listing.ret) > MaxPerPage

\* the configuration a command line and environment give is complete: a
\* token and a secret from the flag or the variable, an installation ID
\* that is not zero, and a PR URL argument
ConfigComplete(line) ==
    /\ ~(line.tokenFlag = "" /\ line.tokenEnv = "")
    /\ ~(line.secretFlag = "" /\ line.secretEnv = "")
    /\ \/ line.installFlag # 0
       \/ line.installEnv \in DigitStrings \ {"0", "99999999999999999999"}
    /\ Len(line.args) > 0

\* the URL names a pull request: https://github.com/{owner}/{repo}/pull/{number}
\* with a number that fits an int, and nothing or /... after it
IsPRURL(url) ==
    /\ Len(url) >= 12
    /\ SubSeq(url, 1, 5) = <<"https:", Slash, Slash, "github.com", Slash>>
    /\ url[6] # Slash /\ url[7] = Slash
    /\ url[8] # Slash /\ url[9] = Slash
    /\ url[10] = "pull" /\ url[11] = Slash
    /\ url[12] \in {"0", "7", "123"}
    /\ (Len(url) = 12 \/ url[13] = Slash)

\* C28: a webhook request has been sent only when the configuration was
\* complete, the PR URL was a PR URL and was parsed into owner, repo and
\* number, and the PR was fetched, the steps taken in that order; a run
\* that failed in one of these steps has returned an error and has sent
\* nothing; and a run has returned nil exactly when a request was sent
\* and the response status was 200 or 202.
C28_WebhookOnlyAfterValidation ==
    /\ cli.sent =>
           /\ ConfigComplete(cli.line)
           /\ IsPRURL(cli.line.args[1])
           /\ cli.target # NoTarget
           /\ cli.cfg.token # "" /\ cli.cfg.secret # "" /\ cli.cfg.installID # 0
           /\ cli.steps = <<"parseCliConfig", "parsePRURL", "fetchPRDetails", "sendWebhook">>
    /\ (cli.pc = "done" /\ Len(cli.steps) < 4) => (cli.ret # Nil /\ ~cli.sent)
    /\ (cli.pc = "done" /\ ~ConfigComplete(cli.line)) => Len(cli.steps) = 1
    /\ (cli.pc = "done" /\ ConfigComplete(cli.line) /\ ~IsPRURL(cli.line.args[1]))
           => Len(cli.steps) = 2
    /\ cli.pc = "done" =>
           (cli.ret = Nil <=> (cli.sent /\ cli.status \in {200, 202}))

\* a run whose token and installation ID came from the environment sent the
\* webhook for a /files URL and got 202
C28_Witness ==
    /\ cli.pc = "done"
    /\ cli.line.tokenFlag = "" /\ cli.line.installFlag = 0
    /\ Len(cli.line.args) = 1
    /\ Len(cli.line.args[1]) > 12
    /\ cli.sent /\ cli.status = 202
    /\ cli.ret = Nil
    /\ cli.target = [owner |-> "owner", repo |-> "repo", prNum |-> 7]

====
